---- MODULE Spec2Model ----
(***************************************************************************)
(* The chat turn of the wealthmind backend (POST /chat/message,            *)
(* backend/api/routes.py) together with the router and the cross-referral  *)
(* expander (backend/graph/router.py, backend/graph/synthesizer.py), the   *)
(* session-clear request and the client disconnect that may happen while a *)
(* turn is in flight; and the ranking of findings by synthesis_node        *)
(* (backend/graph/graph.py), by the proactive greeting and by the advisor  *)
(* report, run over one set of capability results (BatchSpec).             *)
(***************************************************************************)
EXTENDS Integers, Sequences, FiniteSets, TLC

VARIABLES
    pc,                   \* position of chat_message.generate()
    db,                   \* the Conversation row of the session
    history,              \* conv.messages as read before streaming starts
    last_findings,        \* conv.last_findings as read before streaming starts
    events,               \* the SSE events yielded so far
    router_raw,           \* what the router's model call produced
    routing,              \* the dict conversation_router returned
    search_results,       \* the web-search results kept (deduplicated, at most 5)
    branch,               \* "none" | "direct" | "agentic"
    valid_agents,         \* routed names that are keys of _CHAT_AGENT_MAP
    agent_results,        \* gather's result slots, one per valid agent
    out_of_order,         \* a call completed while an earlier slot was pending
    domain_findings,      \* findings of the primary agents (agentic branch)
    all_findings,         \* working findings of the turn
    turn_agents_invoked,  \* chain-protection set
    auto_referral_count,  \* referrals run so far
    referrals,            \* list returned by get_cross_referral_candidates
    ref_i,                \* position of the loop over referrals
    referral_agents_run,  \* referred agents that completed (direct branch)
    final_response,       \* text persisted as the assistant's message
    batch_pc,             \* position of the runs over one set of capability results
    graph_state,          \* state["domain_findings"]: the entries of the dict, in order
    synthesized_insights, \* what the runs of synthesis_node returned, in order
    greeting_findings,    \* top_findings of generate_proactive_greeting
    advisor_findings,     \* all_findings of generate_advisor_report after its sort
    expander,             \* a call of get_cross_referral_candidates on its own
    intercept,            \* a call of intercept_trade
    whatif,               \* a request to POST /chat/whatif
    mutation,             \* a call of _apply_whatif or _simulate_trade and the heap it runs on
    trading,              \* the accounts, positions and transactions the trade requests act on
    monitor,              \* the portfolio monitor: its clock, cooldowns and alert rows
    sockets,              \* the WebSocketManager and the coroutines that use it
    group,                \* a concurrent capability group: one asyncio.gather and its merge
    conversations,        \* the rows of the conversations table, in the order of their ids
    requests              \* the session requests in flight, each with its locals

sessionVars == << db, history, last_findings >>

routeVars == << router_raw, routing, search_results >>

fanoutVars == << valid_agents, agent_results, out_of_order, domain_findings >>

referralVars == << auto_referral_count, referrals, ref_i, referral_agents_run >>

chatVars == << pc, events, branch, sessionVars, routeVars, fanoutVars, referralVars,
               all_findings, turn_agents_invoked, final_response >>

synthVars == << batch_pc, graph_state, synthesized_insights, greeting_findings,
                advisor_findings >>

storeVars == << conversations, requests >>

\* what a step of the chat turn leaves alone
offChatVars == << synthVars, expander, intercept, whatif, mutation, trading, monitor, sockets, group, storeVars >>

\* what a run of the rankings leaves alone
offBatchVars == << chatVars, expander, intercept, whatif, mutation, trading, monitor, sockets, group, storeVars >>

offExpanderVars == << chatVars, synthVars, intercept, whatif, mutation, trading, monitor, sockets, group, storeVars >>

offInterceptVars == << chatVars, synthVars, expander, whatif, mutation, trading, monitor, sockets, group, storeVars >>

offWhatIfVars == << chatVars, synthVars, expander, intercept, mutation, trading, monitor, sockets, group, storeVars >>

offMutationVars == << chatVars, synthVars, expander, intercept, whatif, trading, monitor, sockets, group, storeVars >>

offTradingVars == << chatVars, synthVars, expander, intercept, whatif, mutation, monitor, sockets, group, storeVars >>

offMonitorVars == << chatVars, synthVars, expander, intercept, whatif, mutation, trading, sockets, group, storeVars >>

offSocketsVars == << chatVars, synthVars, expander, intercept, whatif, mutation, trading, monitor, group, storeVars >>

offGroupVars == << chatVars, synthVars, expander, intercept, whatif, mutation, trading, monitor, sockets, storeVars >>

offStoreVars == << chatVars, synthVars, expander, intercept, whatif, mutation, trading, monitor, sockets, group >>

vars == << chatVars, synthVars, expander, intercept, whatif, mutation, trading, monitor, sockets, group, storeVars >>

-----------------------------------------------------------------------------
(* Bounds of the model *)

MaxRouted == 2

MaxFindings == 1

(* Program constants *)

MAX_AUTO_REFERRALS == 1

ALL_AGENTS == << "allocation", "tax_implications", "tlh", "rate_arbitrage", "timing" >>

CHAT_AGENT_MAP == { "allocation", "tax_implications", "tlh", "rate_arbitrage", "timing" }

AGENT_TO_DOMAIN_KEY ==
    [ a \in CHAT_AGENT_MAP |->
        CASE a = "allocation"       -> "allocation"
          [] a = "tax_implications" -> "tax"
          [] a = "tlh"              -> "tlh"
          [] a = "rate_arbitrage"   -> "rates"
          [] a = "timing"           -> "timing" ]

CrossReferralSources == CHAT_AGENT_MAP \cup { "direct_response" }

CROSS_REFERRAL_MAP ==
    [ s \in CrossReferralSources |->
        CASE s = "allocation"       -> << "timing", "rate_arbitrage" >>
          [] s = "tax_implications" -> << "tlh", "timing" >>
          [] s = "tlh"              -> << "tax_implications", "timing" >>
          [] s = "rate_arbitrage"   -> << "allocation" >>
          [] s = "timing"           -> << "allocation", "tax_implications" >>
          [] s = "direct_response"  -> ALL_AGENTS ]

-----------------------------------------------------------------------------
(* Generic helpers *)

Range(s) == { s[i] : i \in 1..Len(s) }

SeqsUpTo(S, n) == UNION { [1..k -> S] : k \in 0..n }

\* all orders in which a Python set with the elements S can be iterated
SetOrders(S) ==
    { o \in [1..Cardinality(S) -> S] : \A i, j \in 1..Cardinality(S) : o[i] = o[j] => i = j }

Greatest(S) == CHOOSE x \in S : \A y \in S : x >= y

Least(S) == CHOOSE x \in S : \A y \in S : x <= y

EmptyDict == [ k \in {} |-> 0 ]

\* dict.update
Update(d, e) ==
    [ k \in (DOMAIN d) \cup (DOMAIN e) |-> IF k \in DOMAIN e THEN e[k] ELSE d[k] ]

DictSet(d, k, v) == Update(d, [ x \in {k} |-> v ])

\* a value on which len() raises TypeError (JSON null, a number)
NonSized == -1

-----------------------------------------------------------------------------
(* SSE events *)

Ev(e, a, n, err, t) == [ event |-> e, agent |-> a, n |-> n, err |-> err, text |-> t ]

EvRouting(r) ==
    [ event |-> "routing", agent |-> "", n |-> Len(r.agents_to_invoke), err |-> FALSE,
      text |-> "", agents_to_invoke |-> r.agents_to_invoke,
      can_answer_from_context |-> r.can_answer_from_context,
      needs_web_search |-> r.needs_web_search ]

EvError(msg) == Ev("error", "", 0, TRUE, msg)

-----------------------------------------------------------------------------
(* Router: backend/graph/router.py *)

\* names the router's model may put into agents_to_invoke
RoutedNames == { "tax_implications", "tlh", "budgeting" }

RoutedLists == SeqsUpTo(RoutedNames, MaxRouted)

RoutingDict(agents, can, direct, needs, query) ==
    [ isdict |-> TRUE, agents_to_invoke |-> agents, can_answer_from_context |-> can,
      direct_response |-> direct, needs_web_search |-> needs, web_search_query |-> query ]

\* what routes.py reads with .get(...) from a dict that has none of the keys
NoFields == RoutingDict(<< >>, FALSE, "", FALSE, "")

RouterFallback == RoutingDict(ALL_AGENTS, FALSE, "", FALSE, "")

\* json.loads gave a list or a string: returned as it is, it has no .get
NotADict == [ NoFields EXCEPT !.isdict = FALSE ]

\* the objects the router's model can answer with; direct_response is read on
\* the direct branch only (line 746), so it is varied only where that branch
\* is taken
RouterObjects ==
    { r \in { RoutingDict(l, c, d, s[1], s[2]) :
                l \in RoutedLists, c \in BOOLEAN, d \in { "", "direct_text" },
                s \in { << FALSE, "" >>, << TRUE, "q" >>, << TRUE, "" >> } } :
        r.direct_response # "" => (r.can_answer_from_context \/ r.agents_to_invoke = << >>) }

RouterRaw ==
    { [ kind |-> k, obj |-> NoFields ] :
        k \in { "raise", "nonjson", "scalar", "array", "string", "empty_object" } }
    \cup { [ kind |-> "object", obj |-> o ] : o \in RouterObjects }

conversation_router(raw) ==
    CASE raw.kind \in { "raise", "nonjson", "scalar" } -> RouterFallback
      [] raw.kind \in { "array", "string" }           -> NotADict
      [] raw.kind = "empty_object"                     -> NoFields
      [] raw.kind = "object"                           -> raw.obj

-----------------------------------------------------------------------------
(* Session store *)

Message(role, content, sources, snapshot) ==
    [ role |-> role, content |-> content, agent_sources |-> sources,
      findings_snapshot |-> snapshot ]

GreetingFindings == [ k \in { "greeting_data" } |-> 1 ]

InitialMessages == << Message("assistant", "greeting", {}, [ k \in { "top_findings" } |-> 1 ]) >>

ChatInit ==
    /\ pc = "start"
    /\ db = [ exists |-> TRUE, messages |-> InitialMessages, last_findings |-> GreetingFindings ]
    /\ history = InitialMessages
    /\ last_findings = GreetingFindings
    /\ events = << >>
    /\ router_raw = "none"
    /\ routing = NoFields
    /\ search_results = << >>
    /\ branch = "none"
    /\ valid_agents = << >>
    /\ agent_results = << >>
    /\ out_of_order = FALSE
    /\ domain_findings = EmptyDict
    /\ all_findings = EmptyDict
    /\ turn_agents_invoked = {}
    /\ auto_referral_count = 0
    /\ referrals = << >>
    /\ ref_i = 1
    /\ referral_agents_run = << >>
    /\ final_response = ""

\* no result of a ranking yet
NoResult == [ raised |-> FALSE, ranked |-> << >> ]

\* the rankings outside the chat path are not running
BatchIdle ==
    /\ batch_pc = "idle"
    /\ graph_state = << >>
    /\ synthesized_insights = << >>
    /\ greeting_findings = NoResult
    /\ advisor_findings = NoResult

\* a call or request that has not been made
Idle == [ pc |-> "idle" ]

\* no session request is in flight
StoreIdle == conversations = << >> /\ requests = << >>

\* a chat turn on its own
Init ==
    /\ ChatInit
    /\ BatchIdle
    /\ expander = Idle
    /\ intercept = Idle
    /\ whatif = Idle
    /\ mutation = Idle
    /\ trading = Idle
    /\ monitor = Idle
    /\ sockets = Idle
    /\ group = Idle
    /\ StoreIdle

-----------------------------------------------------------------------------
(* generate(): steps 0 and 1 *)

\* the except clause of generate(): one error event, nothing else
Fail(msg) ==
    /\ events' = Append(events, EvError(msg))
    /\ pc' = "finished"

Route ==
    /\ UNCHANGED offChatVars
    /\ pc = "start"
    /\ \/ /\ Fail("get_portfolio_snapshot raised")
          /\ UNCHANGED << router_raw, routing >>
       \/ \E raw \in RouterRaw :
            LET r == conversation_router(raw) IN
            /\ router_raw' = raw.kind
            /\ routing' = r
            /\ IF ~r.isdict
               THEN Fail("AttributeError: no attribute get")
               ELSE /\ events' = Append(events, EvRouting(r))
                    /\ pc' = IF r.needs_web_search /\ r.web_search_query # ""
                             THEN "web_search" ELSE "branch"
    /\ UNCHANGED << search_results, branch, sessionVars, fanoutVars, referralVars,
                    all_findings, turn_agents_invoked, final_response >>

-----------------------------------------------------------------------------
(* generate(): step 1b, web search *)

\* mutant of SearchOutcomes: the failure comes after results were appended
SearchOutcomesPartial ==
    { [ kind |-> "ok", results |-> << >> ],
      [ kind |-> "ok", results |-> << "url1" >> ],
      [ kind |-> "raise", results |-> << "url1" >> ] }

\* outcomes of the gather over web_search and news_search; both return lists of
\* results that have a title and a url, so the lines after the gather cannot
\* raise and a failure leaves search_results as it was initialised
SearchOutcomes ==
    { [ kind |-> "ok", results |-> << >> ],
      [ kind |-> "ok", results |-> << "url1" >> ],
      [ kind |-> "raise", results |-> << >> ] }

WebSearch ==
    /\ UNCHANGED offChatVars
    /\ pc = "web_search"
    /\ \E o \in SearchOutcomes :
          /\ search_results' = o.results
          /\ events' = events \o
                << Ev("web_search_start", "", 0, FALSE, routing.web_search_query),
                   Ev("web_search_complete", "",
                      IF o.kind = "raise" THEN 0 ELSE Len(o.results), o.kind = "raise", "") >>
    /\ pc' = "branch"
    /\ UNCHANGED << router_raw, routing, branch, sessionVars, fanoutVars, referralVars,
                    all_findings, turn_agents_invoked, final_response >>

-----------------------------------------------------------------------------
(* generate(): step 2, the direct branch up to the referral check *)

WithSearch(findings, results) ==
    IF results # << >> THEN DictSet(findings, "web_search_results", Len(results)) ELSE findings

SourcesEvents(results) ==
    IF results # << >> THEN << Ev("sources", "", Len(results), FALSE, "") >> ELSE << >>

\* mutant of AnswerEvents: the sources are yielded before the response
AnswerEventsSourcesFirst(completes, text, results) ==
    completes \o SourcesEvents(results) \o << Ev("response", "", 0, FALSE, text) >>

\* the order in which generate() yields an answer: the agent_complete events of
\* the primary loop (none on the direct branch), the response, the sources
AnswerEvents(completes, text, results) ==
    completes \o << Ev("response", "", 0, FALSE, text) >> \o SourcesEvents(results)

\* the text of the direct answer (lines 746-759)
DirectText(r, results) ==
    IF results # << >> /\ r.direct_response # "" THEN "synth_context_search"
    ELSE IF results # << >> THEN "synth_search"
    ELSE r.direct_response

TakesDirectBranch(r) == r.can_answer_from_context \/ r.agents_to_invoke = << >>

DirectAnswer ==
    /\ UNCHANGED offChatVars
    /\ pc = "branch"
    /\ TakesDirectBranch(routing)
    /\ LET direct == DirectText(routing, search_results) IN
          /\ events' = events \o AnswerEvents(<< >>, direct, search_results)
          /\ final_response' = direct
    /\ turn_agents_invoked' = turn_agents_invoked \cup { "direct_response" }
    /\ all_findings' = WithSearch(last_findings, search_results)
    /\ branch' = "direct"
    /\ pc' = "referral_check"
    /\ UNCHANGED << sessionVars, routeVars, fanoutVars, referralVars >>

-----------------------------------------------------------------------------
(* generate(): steps 3 to 5, the agentic branch up to the referral check *)

ValidAgents(agents) == SelectSeq(agents, LAMBDA d : d \in CHAT_AGENT_MAP)

RECURSIVE StartEvents(_)
StartEvents(agents) ==
    IF agents = << >> THEN << >>
    ELSE << Ev("agent_start", Head(agents), 0, FALSE, ""),
            Ev("handoff", Head(agents), 0, FALSE, "handoff_message") >>
         \o StartEvents(Tail(agents))

\* the mutable objects a capability call can reach through its argument: the
\* state dict built for call k and the dicts it refers to
make_chat_state(portfolio, cra_rules, k) ==
    [ state |-> << "state", k >>, financial_profile |-> portfolio, cra_rules |-> cra_rules,
      domain_findings |-> << "domain_findings", k >> ]

\* the argument of the k-th call of the gather of lines 827-833
ChatCallState(k) == make_chat_state(<< "portfolio", 0 >>, << "cra_rules", 0 >>, k)

ObjectsOf(st) == { st.state, st.financial_profile, st.cra_rules, st.domain_findings }

Pending == [ kind |-> "pending", n |-> 0, valid |-> 0 ]

\* what one capability call can end in: its dict with a findings list of n
\* entries (none, or MaxFindings) of which `valid` have the seven required keys
\* and a numeric dollar_impact (all of them, or all but one), the same with a
\* findings value that has no len(), or an exception
AgentOutcomes ==
    { [ kind |-> "ok", n |-> n, valid |-> n ] : n \in { 0, MaxFindings } }
    \cup { [ kind |-> "ok", n |-> MaxFindings, valid |-> MaxFindings - 1 ],
           [ kind |-> "ok", n |-> NonSized, valid |-> 0 ],
           [ kind |-> "raise", n |-> 0, valid |-> 0 ] }

AgentStart ==
    /\ UNCHANGED offChatVars
    /\ pc = "branch"
    /\ ~TakesDirectBranch(routing)
    /\ LET va == ValidAgents(routing.agents_to_invoke) IN
          /\ valid_agents' = va
          /\ turn_agents_invoked' = turn_agents_invoked \cup Range(va)
          /\ events' = events \o StartEvents(va)
          /\ agent_results' = [ i \in 1..Len(va) |-> Pending ]
    /\ branch' = "agentic"
    /\ pc' = "gather"
    /\ UNCHANGED << sessionVars, routeVars, out_of_order, domain_findings, referralVars,
                    all_findings, final_response >>

\* one of the concurrently running capability calls completes
AgentFinish ==
    /\ UNCHANGED offChatVars
    /\ pc = "gather"
    /\ \E i \in 1..Len(valid_agents) :
          /\ agent_results[i] = Pending
          /\ \E o \in AgentOutcomes : agent_results' = [ agent_results EXCEPT ![i] = o ]
          /\ out_of_order' = (out_of_order \/ \E j \in 1..(i - 1) : agent_results[j] = Pending)
    /\ UNCHANGED << pc, events, branch, sessionVars, routeVars, valid_agents,
                    domain_findings, referralVars, all_findings, turn_agents_invoked,
                    final_response >>

\* mutant of Joined: the loop runs as soon as one call has completed
JoinedFirstCompleted(results) == \E i \in 1..Len(results) : results[i] # Pending

\* asyncio.gather(..., return_exceptions=True) has returned
Joined(results) == \A i \in 1..Len(results) : results[i] # Pending

\* mutant of CollectResults: gather without return_exceptions, so a capability
\* exception leaves the try block before the loop yields anything
RECURSIVE CollectResultsRaising(_, _, _, _)
CollectResultsRaising(agents, results, i, df) ==
    IF \E j \in 1..Len(results) : results[j].kind = "raise"
    THEN [ evs |-> << >>, df |-> df, raised |-> TRUE ]
    ELSE IF i > Len(agents) THEN [ evs |-> << >>, df |-> df, raised |-> FALSE ]
    ELSE LET df1 == DictSet(df, AGENT_TO_DOMAIN_KEY[agents[i]], results[i].n) IN
         IF results[i].n = NonSized
         THEN [ evs |-> << >>, df |-> df1, raised |-> TRUE ]
         ELSE LET rest == CollectResultsRaising(agents, results, i + 1, df1) IN
              [ rest EXCEPT !.evs =
                  << Ev("agent_complete", agents[i], results[i].n, FALSE, "") >> \o @ ]

\* the loop of lines 836-850 over zip(valid_agents, agent_results), from slot i
\* with the findings df collected so far: the events it yields, the findings it
\* leaves and whether len() raised in it
RECURSIVE CollectResults(_, _, _, _)
CollectResults(agents, results, i, df) ==
    IF i > Len(agents) THEN [ evs |-> << >>, df |-> df, raised |-> FALSE ]
    ELSE IF results[i].kind = "raise"
    THEN LET rest == CollectResults(agents, results, i + 1, df) IN
         [ rest EXCEPT !.evs = << Ev("agent_complete", agents[i], 0, TRUE, "agent raised") >> \o @ ]
    ELSE LET df1 == DictSet(df, AGENT_TO_DOMAIN_KEY[agents[i]], results[i].n) IN
         IF results[i].n = NonSized
         THEN [ evs |-> << >>, df |-> df1, raised |-> TRUE ]
         ELSE LET rest == CollectResults(agents, results, i + 1, df1) IN
              [ rest EXCEPT !.evs =
                  << Ev("agent_complete", agents[i], results[i].n, FALSE, "") >> \o @ ]

Join ==
    /\ UNCHANGED offChatVars
    /\ pc = "gather"
    /\ Joined(agent_results)
    /\ LET c == CollectResults(valid_agents, agent_results, 1, EmptyDict) IN
          /\ domain_findings' = c.df
          /\ IF c.raised
             THEN /\ events' = events \o c.evs \o << EvError("TypeError: no len()") >>
                  /\ pc' = "finished"
                  /\ UNCHANGED << all_findings, final_response >>
             ELSE /\ events' = events \o AnswerEvents(c.evs, "synth_primary", search_results)
                  /\ all_findings' = WithSearch(c.df, search_results)
                  /\ final_response' = "synth_primary"
                  /\ pc' = "referral_check"
    /\ UNCHANGED << branch, sessionVars, routeVars, valid_agents, agent_results,
                    out_of_order, referralVars, turn_agents_invoked >>

-----------------------------------------------------------------------------
(* Cross-referral expander: backend/graph/synthesizer.py *)

\* what the relevance model call of one candidate can produce: the call raises
\* or times out, text that is no JSON, JSON that is no object, an object
\* without "refer", {"refer": true}, {"refer": false}, {"refer": "false"}
RelevanceRaw == { "raise", "nonjson", "nonobject", "nokey", "true", "false", "strfalse" }

\* the value under "refer" of the dict evaluate_cross_referral returns
evaluate_cross_referral(raw) ==
    CASE raw \in { "raise", "nonjson" }   -> [ refer |-> "False" ]
      [] raw \in { "nonobject", "nokey" } -> [ refer |-> "False" ]
      [] raw = "true"                     -> [ refer |-> "True" ]
      [] raw = "false"                    -> [ refer |-> "False" ]
      [] raw = "strfalse"                 -> [ refer |-> "'false'" ]

\* Python truth value of result.get("refer")
Truthy(v) == v \in { "True", "'false'" }

\* mutant of CrossReferralCandidates: the map is read in both directions
CrossReferralCandidatesSymmetric(primary_agents, invoked) ==
    { c \in CHAT_AGENT_MAP :
        /\ c \notin invoked
        /\ \E a \in Range(primary_agents) \cap DOMAIN CROSS_REFERRAL_MAP :
              c \in Range(CROSS_REFERRAL_MAP[a]) \/ a \in Range(CROSS_REFERRAL_MAP[c]) }

\* lines 222-226: the candidates of the sources that are keys of the map
CrossReferralCandidates(primary_agents, invoked) ==
    { c \in UNION { Range(CROSS_REFERRAL_MAP[a]) :
                      a \in Range(primary_agents) \cap DOMAIN CROSS_REFERRAL_MAP } :
        c \notin invoked }

\* mutant of Truncate: the slice is one too long
TruncateOneMore(list, max_referrals) ==
    SubSeq(list, 1, IF Len(list) < max_referrals + 1 THEN Len(list) ELSE max_referrals + 1)

\* mutant of Truncate: the slice is missing
NoTruncate(list, max_referrals) == list

\* referrals[:max_referrals]
Truncate(list, max_referrals) ==
    SubSeq(list, 1, IF Len(list) < max_referrals THEN Len(list) ELSE max_referrals)

\* the answers on which the list comprehension of lines 238-242 keeps a candidate
AcceptingRaw == { r \in RelevanceRaw : Truthy(evaluate_cross_referral(r).refer) }

\* the list get_cross_referral_candidates returns when the candidates in
\* Range(order) were kept, iterated in this order, on the answers raw
ReferralList(order, raw, max_referrals) ==
    Truncate([ i \in 1..Len(order) |-> [ agent |-> order[i], answer |-> raw[order[i]] ] ],
             max_referrals)

PrimaryAgents == IF branch = "direct" THEN << "direct_response" >> ELSE valid_agents

\* The call of get_cross_referral_candidates. Every candidate gets its own
\* answer from RelevanceRaw; the candidates are a Python set, so the kept ones
\* come in any order. A candidate outside `accepted` got an answer outside
\* AcceptingRaw: which one leaves no trace in the returned list.
ReferralCheck ==
    /\ UNCHANGED offChatVars
    /\ pc = "referral_check"
    /\ LET candidates == CrossReferralCandidates(PrimaryAgents, turn_agents_invoked) IN
       \E accepted \in SUBSET candidates :
          /\ accepted # candidates => RelevanceRaw \ AcceptingRaw # {}
          /\ \E order \in SetOrders(accepted) :
             \E raw \in [ accepted -> AcceptingRaw ] :
                referrals' = ReferralList(order, raw, MAX_AUTO_REFERRALS)
    /\ ref_i' = 1
    /\ pc' = "referral_loop"
    /\ UNCHANGED << events, branch, sessionVars, routeVars, fanoutVars, auto_referral_count,
                    referral_agents_run, all_findings, turn_agents_invoked, final_response >>

\* mutant of ReferralResponse: the primary answer stays the final response
ReferralResponseKept(previous, followup_text) == previous

\* lines 799 and 895: final_response = followup_text
ReferralResponse(previous, followup_text) == followup_text

\* the for loop over referrals has not ended (exhausted, or left by break)
LoopContinues ==
    /\ ref_i <= Len(referrals)
    /\ auto_referral_count < MAX_AUTO_REFERRALS

\* one iteration of the loop (lines 776-803 and 872-899)
ReferralStep ==
    /\ UNCHANGED offChatVars
    /\ pc = "referral_loop"
    /\ LoopContinues
    /\ ref_i' = ref_i + 1
    /\ LET ref_agent == referrals[ref_i].agent IN
       IF ref_agent \in turn_agents_invoked
       THEN UNCHANGED << events, auto_referral_count, referral_agents_run, all_findings,
                         turn_agents_invoked, final_response >>
       ELSE \E o \in AgentOutcomes :
              LET started == << Ev("handoff", ref_agent, 0, FALSE, "auto_referral_message"),
                                Ev("agent_start", ref_agent, 0, FALSE, "") >>
              IN
              IF o.kind = "ok" /\ o.n # NonSized
              THEN /\ events' = events \o started \o
                        << Ev("agent_complete", ref_agent, o.n, FALSE, ""),
                           Ev("auto_referral_response", ref_agent, 0, FALSE, "synth_referral") >>
                   /\ all_findings' = DictSet(all_findings, AGENT_TO_DOMAIN_KEY[ref_agent], o.n)
                   /\ turn_agents_invoked' = turn_agents_invoked \cup { ref_agent }
                   /\ referral_agents_run' =
                        IF branch = "direct" THEN Append(referral_agents_run, ref_agent)
                        ELSE referral_agents_run
                   /\ auto_referral_count' = auto_referral_count + 1
                   /\ final_response' = ReferralResponse(final_response, "synth_referral")
              ELSE /\ events' = events \o started \o
                        << Ev("agent_complete", ref_agent, 0, TRUE, "agent raised") >>
                   /\ UNCHANGED << auto_referral_count, referral_agents_run, all_findings,
                                   turn_agents_invoked, final_response >>
    /\ UNCHANGED << pc, branch, sessionVars, routeVars, fanoutVars, referrals >>

-----------------------------------------------------------------------------
(* generate(): follow-up chips, done and the save *)

\* what the model call of generate_follow_up_chips can produce: the call
\* raises, text that is no JSON, JSON that is no list, a JSON list (here one of
\* four entries, which the slice cuts to three)
ChipsRaw ==
    { [ kind |-> k, len |-> 0 ] : k \in { "raise", "nonjson", "nonlist" } }
    \cup { [ kind |-> "list", len |-> 4 ] }

\* the length of the list generate_follow_up_chips returns: [str(c) for c in
\* chips[:3]] of a list, [] otherwise; every entry is a str
generate_follow_up_chips(raw) ==
    IF raw.kind = "list" THEN (IF raw.len < 3 THEN raw.len ELSE 3) ELSE 0

\* the follow_ups event: n is the number of chips it carries, text the response
\* they were generated from
FollowUps ==
    /\ UNCHANGED offChatVars
    /\ pc = "referral_loop"
    /\ ~LoopContinues
    /\ \E raw \in ChipsRaw :
          events' = events \o
             << Ev("follow_ups", "", generate_follow_up_chips(raw), FALSE, final_response) >> \o
             (IF branch = "direct" THEN << Ev("done", "", 0, FALSE, "") >> ELSE << >>)
    /\ pc' = "save"
    /\ UNCHANGED << branch, sessionVars, routeVars, fanoutVars, referralVars, all_findings,
                    turn_agents_invoked, final_response >>

\* agent_sources handed to _save_chat_exchange
SavedSources ==
    IF branch = "direct" THEN Range(referral_agents_run)
    ELSE (turn_agents_invoked \ { "direct_response" })
         \cup (IF search_results # << >> THEN { "web_search" } ELSE {})

\* the row _save_chat_exchange leaves when it runs to its commit
save_chat_exchange(row, assistant_response, agent_sources, findings) ==
    IF ~row.exists THEN row
    ELSE [ row EXCEPT
             !.messages = @ \o << Message("user", "user_message", {}, EmptyDict),
                                  Message("assistant", assistant_response, agent_sources,
                                          findings) >>,
             !.last_findings = findings ]

\* mutant of SaveOutcomes: the exception is raised after the commit
SaveOutcomesRaiseAfterCommit(row, assistant_response, agent_sources, findings) ==
    { [ row |-> save_chat_exchange(row, assistant_response, agent_sources, findings),
        raised |-> r ] : r \in BOOLEAN }

\* how the await of _save_chat_exchange can end: it returns after its commit (or
\* after finding no row), or a database call in it raises and the session is
\* closed without a commit
SaveOutcomes(row, assistant_response, agent_sources, findings) ==
    { [ row |-> save_chat_exchange(row, assistant_response, agent_sources, findings),
        raised |-> FALSE ],
      [ row |-> row, raised |-> TRUE ] }

Save ==
    /\ UNCHANGED offChatVars
    /\ pc = "save"
    /\ pc' = "finished"
    /\ \E o \in SaveOutcomes(db, final_response, SavedSources, all_findings) :
          /\ db' = o.row
          /\ events' = IF o.raised THEN Append(events, EvError("database error"))
                       ELSE IF branch = "direct" THEN events
                       ELSE Append(events, Ev("done", "", 0, FALSE, ""))
    /\ UNCHANGED << branch, history, last_findings, routeVars, fanoutVars, referralVars,
                    all_findings, turn_agents_invoked, final_response >>

-----------------------------------------------------------------------------
(* DELETE /chat/session, issued while the turn is in flight *)

ClearedRow == [ exists |-> FALSE, messages |-> << >>, last_findings |-> EmptyDict ]

\* The turn neither reads nor writes the row between the handler's read
\* (history, last_findings) and the save, so a clear issued anywhere in between
\* leaves the same row to the save as one issued just before it.
clear_chat_session ==
    /\ UNCHANGED offChatVars
    /\ pc = "save"
    /\ db.exists
    /\ db' = ClearedRow
    /\ UNCHANGED << pc, events, branch, history, last_findings, routeVars, fanoutVars,
                    referralVars, all_findings, turn_agents_invoked, final_response >>

-----------------------------------------------------------------------------
(* The client closes the event stream while the turn is in flight *)

\* what the row can be when the generator is cancelled: only while the save is
\* awaited can the turn have written to it, and the cancellation lands either
\* before the commit of line 574 or after it (the session is still closed with
\* an await before _save_chat_exchange returns)
RowAtCancel ==
    IF pc = "save"
    THEN { db, save_chat_exchange(db, final_response, SavedSources, all_findings) }
    ELSE { db }

\* The response's task is cancelled at the yield or await where generate() is
\* suspended. CancelledError and GeneratorExit are no Exception, so the except
\* clause of line 911 does not run: nothing more is yielded, nothing is saved.
\* The frame of generate() is discarded, so its locals are back to nothing.
client_disconnect ==
    /\ UNCHANGED offChatVars
    /\ pc \notin { "finished", "disconnected" }
    /\ pc' = "disconnected"
    /\ db' \in RowAtCancel
    /\ router_raw' = "none"
    /\ routing' = NoFields
    /\ search_results' = << >>
    /\ branch' = "none"
    /\ valid_agents' = << >>
    /\ agent_results' = << >>
    /\ out_of_order' = FALSE
    /\ domain_findings' = EmptyDict
    /\ all_findings' = EmptyDict
    /\ turn_agents_invoked' = {}
    /\ auto_referral_count' = 0
    /\ referrals' = << >>
    /\ ref_i' = 1
    /\ referral_agents_run' = << >>
    /\ final_response' = ""
    /\ UNCHANGED << events, history, last_findings >>

Next ==
    \/ Route
    \/ WebSearch
    \/ DirectAnswer
    \/ AgentStart
    \/ AgentFinish
    \/ Join
    \/ ReferralCheck
    \/ ReferralStep
    \/ FollowUps
    \/ Save
    \/ clear_chat_session
    \/ client_disconnect

Spec == Init /\ [][Next]_vars

\* the steps of generate() itself
TurnStep ==
    \/ Route
    \/ WebSearch
    \/ DirectAnswer
    \/ AgentStart
    \/ AgentFinish
    \/ Join
    \/ ReferralCheck
    \/ ReferralStep
    \/ FollowUps
    \/ Save

\* Every external call the turn awaits returns or raises, and the event loop
\* resumes the generator: a step of the turn that stays possible is taken.
LiveSpec == Spec /\ WF_vars(TurnStep)

-----------------------------------------------------------------------------
(* Findings and their ranking: backend/graph/graph.py, and the rankings of    *)
(* backend/graph/proactive.py and backend/services/advisor.py                 *)

\* bound: findings in one set of capability results
MaxMerged == 3

REQUIRED_FINDING_KEYS ==
    { "title", "dollar_impact", "impact_direction", "urgency", "reasoning", "confidence",
      "what_to_do" }

\* a title that is a Python str with these characters
Title(chars) == [ str |-> TRUE, chars |-> chars ]

\* a title that is no str (a JSON number or null)
NonStringTitle == [ str |-> FALSE, chars |-> << >> ]

\* a dollar_impact: an int or float, a string float() can read, any other text
Impact(kind, v) == [ kind |-> kind, v |-> v ]

\* a finding dict: its title, its dollar_impact, the required keys it lacks and
\* the tags synthesis_node ("domain") and the other rankings ("_source") set
Finding(title, impact, missing) ==
    [ title |-> title, dollar_impact |-> impact, missing |-> missing, domain |-> "",
      source |-> "" ]

WellFormedFindings ==
    { Finding(Title(t), Impact("number", v), {}) :
        t \in { << "T", "f" >>, << " ", "t", "f", " " >>, << "R", "r" >>, << "H", "l" >> },
        v \in { 100, 150 } }

MalformedFindings ==
    { Finding(Title(<< "R", "r" >>), Impact("number", 150), { "confidence" }),
      Finding(Title(<< "R", "r" >>), Impact("text", 0), {}),
      Finding(Title(<< "R", "r" >>), Impact("numeric_string", 150), {}),
      Finding(NonStringTitle, Impact("number", 150), {}) }

FindingPool == WellFormedFindings \cup MalformedFindings

\* the capability results: a dict of two domains, in insertion order, holding
\* the findings fs, the first k of them under the first domain
DomainFindings(fs, k) ==
    << [ domain |-> "tax", findings |-> SubSeq(fs, 1, k) ],
       [ domain |-> "tlh", findings |-> SubSeq(fs, k + 1, Len(fs)) ] >>

is_valid_finding(f) ==
    /\ REQUIRED_FINDING_KEYS \cap f.missing = {}
    /\ f.dollar_impact.kind = "number"

RECURSIVE Flatten(_)
Flatten(entries) ==
    IF entries = << >> THEN << >> ELSE Head(entries).findings \o Flatten(Tail(entries))

\* the first loop of synthesis_node writes f["domain"] into every valid finding
\* of the state it was given
TagDomain(entries) ==
    [ e \in 1..Len(entries) |->
        [ domain |-> entries[e].domain,
          findings |-> [ i \in 1..Len(entries[e].findings) |->
                           IF is_valid_finding(entries[e].findings[i])
                           THEN [ entries[e].findings[i] EXCEPT !.domain = entries[e].domain ]
                           ELSE entries[e].findings[i] ] ] ]

LowerChar(c) == CASE c = "T" -> "t" [] c = "R" -> "r" [] c = "H" -> "h" [] OTHER -> c

\* str.lower
Lower(chars) == [ i \in 1..Len(chars) |-> LowerChar(chars[i]) ]

\* str.strip
RECURSIVE Strip(_)
Strip(chars) ==
    IF chars = << >> THEN chars
    ELSE IF Head(chars) = " " THEN Strip(Tail(chars))
    ELSE IF chars[Len(chars)] = " " THEN Strip(SubSeq(chars, 1, Len(chars) - 1))
    ELSE chars

\* mutant of DedupKey: the title is lower-cased but not stripped
DedupKeyNotStripped(f) == Lower(f.title.chars)

\* f["title"].lower().strip()
DedupKey(f) == Strip(Lower(f.title.chars))

\* the loop of lines 67-71 from position i, with the keys seen so far
RECURSIVE Dedup(_, _, _)
Dedup(list, i, seen) ==
    IF i > Len(list) THEN << >>
    ELSE IF DedupKey(list[i]) \in seen THEN Dedup(list, i + 1, seen)
    ELSE << list[i] >> \o Dedup(list, i + 1, seen \cup { DedupKey(list[i]) })

\* mutant of InsertionPoint: a sort that puts an element before its equals
InsertionPointBeforeEquals(keys, order, k) ==
    Cardinality({ j \in 1..Len(order) : keys[order[j]] > k })

\* where a stable descending sort puts an element of key k among the elements
\* already placed: behind every element whose key is not smaller
InsertionPoint(keys, order, k) ==
    Cardinality({ j \in 1..Len(order) : keys[order[j]] >= k })

\* the positions 1..Len(keys) in the order sorted(..., reverse=True) and
\* list.sort(reverse=True) leave them in
RECURSIVE SortOrder(_, _, _)
SortOrder(keys, i, order) ==
    IF i > Len(keys) THEN order
    ELSE LET at == InsertionPoint(keys, order, keys[i]) IN
         SortOrder(keys, i + 1,
                   SubSeq(order, 1, at) \o << i >> \o SubSeq(order, at + 1, Len(order)))

SortedDescending(list, keys) ==
    LET order == SortOrder(keys, 1, << >>) IN [ j \in 1..Len(order) |-> list[order[j]] ]

\* synthesis_node on the state it has already tagged
synthesis_node(entries) ==
    LET all == SelectSeq(Flatten(entries), is_valid_finding) IN
    IF \E i \in 1..Len(all) : ~all[i].title.str
    THEN [ raised |-> TRUE, ranked |-> << >> ]
    ELSE LET deduped == Dedup(all, 1, {}) IN
         [ raised |-> FALSE,
           ranked |-> SortedDescending(deduped,
                         [ i \in 1..Len(deduped) |-> deduped[i].dollar_impact.v ]) ]

\* entries of the greeting kept: all_findings[:3]
GREETING_TOP == 3

\* _DOMAIN_LABELS of the capability that fills a domain
DomainLabel(domain) == IF domain = "tax" THEN "tax_implications" ELSE domain

\* both rankings write f["_source"] into every finding of every result
TagSource(entries) ==
    [ e \in 1..Len(entries) |->
        [ domain |-> entries[e].domain,
          findings |-> [ i \in 1..Len(entries[e].findings) |->
                           [ entries[e].findings[i] EXCEPT
                               !.source = DomainLabel(entries[e].domain) ] ] ] ]

\* float(f.get("dollar_impact", 0)) raises on text that is no number
FloatRaises(f) == "dollar_impact" \notin f.missing /\ f.dollar_impact.kind = "text"

FloatKey(f) == IF "dollar_impact" \in f.missing THEN 0 ELSE f.dollar_impact.v

\* all_findings of generate_advisor_report after the sort of line 99, on the
\* results it has already tagged
advisor_all_findings(entries) ==
    LET all == Flatten(entries) IN
    IF \E i \in 1..Len(all) : FloatRaises(all[i])
    THEN [ raised |-> TRUE, ranked |-> << >> ]
    ELSE [ raised |-> FALSE,
           ranked |-> SortedDescending(all, [ i \in 1..Len(all) |-> FloatKey(all[i]) ]) ]

\* top_findings of generate_proactive_greeting (lines 80-103)
proactive_top_findings(entries) ==
    LET r == advisor_all_findings(entries) IN
    [ r EXCEPT !.ranked = SubSeq(@, 1, IF Len(@) < GREETING_TOP THEN Len(@) ELSE GREETING_TOP) ]

\* one set of capability results is ranked by synthesis_node, twice over, then
\* by the proactive greeting and by the advisor report
BatchInit ==
    /\ ChatInit
    /\ batch_pc = "results"
    /\ \E n \in 0..MaxMerged :
          \E fs \in [ 1..n -> FindingPool ] :
             \E k \in 0..n : graph_state = DomainFindings(fs, k)
    /\ synthesized_insights = << >>
    /\ greeting_findings = NoResult
    /\ advisor_findings = NoResult
    /\ expander = Idle
    /\ intercept = Idle
    /\ whatif = Idle
    /\ mutation = Idle
    /\ trading = Idle
    /\ monitor = Idle
    /\ sockets = Idle
    /\ group = Idle
    /\ StoreIdle

SynthesisRun ==
    /\ batch_pc \in { "results", "ranked_once" }
    /\ batch_pc' = IF batch_pc = "results" THEN "ranked_once" ELSE "ranked_twice"
    /\ graph_state' = TagDomain(graph_state)
    /\ synthesized_insights' = Append(synthesized_insights, synthesis_node(graph_state'))
    /\ UNCHANGED << greeting_findings, advisor_findings, offBatchVars >>

ProactiveGreeting ==
    /\ batch_pc = "ranked_twice"
    /\ batch_pc' = "greeted"
    /\ graph_state' = TagSource(graph_state)
    /\ greeting_findings' = proactive_top_findings(graph_state')
    /\ UNCHANGED << synthesized_insights, advisor_findings, offBatchVars >>

AdvisorReport ==
    /\ batch_pc = "greeted"
    /\ batch_pc' = "advised"
    /\ graph_state' = TagSource(graph_state)
    /\ advisor_findings' = advisor_all_findings(graph_state')
    /\ UNCHANGED << synthesized_insights, greeting_findings, offBatchVars >>

BatchNext ==
    \/ SynthesisRun
    \/ ProactiveGreeting
    \/ AdvisorReport

BatchSpec == BatchInit /\ [][BatchNext]_vars

-----------------------------------------------------------------------------
(* get_cross_referral_candidates called on its own: synthesizer.py            *)

\* bound: entries of primary_agents
MaxSources == 2

\* names a caller can pass in primary_agents: the keys of the map and a name
\* that is no key
SourceNames == CrossReferralSources \cup { "budgeting" }

ExpanderInit ==
    /\ ChatInit
    /\ BatchIdle
    /\ \E pa \in SeqsUpTo(SourceNames, MaxSources) :
       \E inv \in SUBSET (CHAT_AGENT_MAP \cup { "direct_response" }) :
       \E mr \in 0..2 :
          expander = [ pc |-> "called", primary_agents |-> pa, turn_agents_invoked |-> inv,
                       max_referrals |-> mr, candidates |-> {}, evaluated |-> {},
                       accepted |-> {}, answers |-> << >>, referrals |-> << >> ]
    /\ intercept = Idle
    /\ whatif = Idle
    /\ mutation = Idle
    /\ trading = Idle
    /\ monitor = Idle
    /\ sockets = Idle
    /\ group = Idle
    /\ StoreIdle

\* lines 222-229: the candidate set, and the return of [] when it is empty
BuildCandidates ==
    /\ expander.pc = "called"
    /\ LET candidates == CrossReferralCandidates(expander.primary_agents,
                                                 expander.turn_agents_invoked)
       IN  expander' = [ expander EXCEPT
                           !.candidates = candidates,
                           !.pc = IF candidates = {} THEN "returned" ELSE "evaluating" ]
    /\ UNCHANGED offExpanderVars

\* lines 231-243: one relevance check per candidate, the accepted ones kept in
\* the order the set is iterated in, the slice
EvaluateCandidates ==
    /\ expander.pc = "evaluating"
    /\ \E accepted \in SUBSET expander.candidates :
       \E order \in SetOrders(accepted) :
       \E raw \in [ accepted -> AcceptingRaw ] :
          expander' = [ expander EXCEPT
                          !.evaluated = expander.candidates,
                          !.accepted = accepted,
                          !.answers = raw,
                          !.referrals = ReferralList(order, raw, expander.max_referrals),
                          !.pc = "returned" ]
    /\ UNCHANGED offExpanderVars

ExpanderNext ==
    \/ BuildCandidates
    \/ EvaluateCandidates

ExpanderSpec == ExpanderInit /\ [][ExpanderNext]_vars

-----------------------------------------------------------------------------
(* intercept_trade: backend/services/interception.py *)

\* the lists _select_agents returns: tax_implications always, tlh on some
\* sells, allocation for a registered account, rate_arbitrage on a buy
SelectedAgents ==
    { << "tax_implications" >> \o c[1] \o a \o c[2] :
        c \in { << << >>, << >> >>, << << "tlh" >>, << >> >>,
                << << >>, << "rate_arbitrage" >> >> },
        a \in { << >>, << "allocation" >> } }

\* a finding as intercept_trade reads it: where it came from and its
\* dollar_impact
TradeFinding(agent, k, impact) == [ title |-> << agent, k >>, dollar_impact |-> impact ]

\* the findings lists a capability can come back with: none, an immaterial
\* one, material ones, one whose dollar_impact is text
TradeFindings(agent) ==
    { << >>,
      << TradeFinding(agent, 1, Impact("number", 10)) >>,
      << TradeFinding(agent, 1, Impact("number", 50)) >>,
      << TradeFinding(agent, 1, Impact("number", -100)) >>,
      << TradeFinding(agent, 1, Impact("number", 200)),
         TradeFinding(agent, 2, Impact("number", 60)) >>,
      << TradeFinding(agent, 1, Impact("text", 0)) >> }

\* what one capability call of the gather of lines 195-198 ends in
TradeAgentOutcomes(agent) ==
    { [ kind |-> "ok", sized |-> TRUE, findings |-> fl ] : fl \in TradeFindings(agent) }
    \cup { [ kind |-> "ok", sized |-> FALSE, findings |-> << >> ],
           [ kind |-> "raise", sized |-> TRUE, findings |-> << >> ] }

TradePending == [ kind |-> "pending", sized |-> TRUE, findings |-> << >> ]

\* {"should_intercept": False}; the keys it lacks are written as empty
NoIntercept == [ should_intercept |-> FALSE, findings |-> << >>, headline |-> << >> ]

\* lines 233-238: the headline names the title of the top finding and, since
\* its impact is not zero and no title of the model ends with a period, the
\* impact at stake
Headline(top) == << top.title, top.dollar_impact.v >>

Abs(x) == IF x < 0 THEN -x ELSE x

\* the loop of lines 200-212 from slot i: all_findings, or a TypeError of len()
RECURSIVE TradeAllFindings(_, _)
TradeAllFindings(results, i) ==
    IF i > Len(results) THEN [ raised |-> FALSE, all |-> << >> ]
    ELSE IF results[i].kind = "raise" THEN TradeAllFindings(results, i + 1)
    ELSE IF ~results[i].sized THEN [ raised |-> TRUE, all |-> << >> ]
    ELSE LET rest == TradeAllFindings(results, i + 1) IN
         [ rest EXCEPT !.all = results[i].findings \o @ ]

\* lines 200-258: what _run returns after the gather, or that it raises
TradeRun(results) ==
    LET c == TradeAllFindings(results, 1) IN
    IF c.raised \/ \E i \in 1..Len(c.all) : c.all[i].dollar_impact.kind # "number"
    THEN [ kind |-> "raise", result |-> NoIntercept ]
    ELSE LET material == SelectSeq(c.all, LAMBDA f : Abs(f.dollar_impact.v) >= 50)
             sorted == SortedDescending(material,
                          [ i \in 1..Len(material) |-> Abs(material[i].dollar_impact.v) ])
         IN  IF material = << >> THEN [ kind |-> "return", result |-> NoIntercept ]
             ELSE [ kind |-> "return",
                    result |-> [ should_intercept |-> TRUE,
                                 findings |-> SubSeq(sorted, 1,
                                                IF Len(sorted) < 3 THEN Len(sorted) ELSE 3),
                                 headline |-> Headline(sorted[1]) ] ]

\* mutant of intercept_trade_returns: only the timeout is caught
intercept_trade_propagates(run) ==
    IF run.kind = "return" THEN [ raised |-> FALSE, result |-> run.result ]
    ELSE IF run.kind = "timeout" THEN [ raised |-> FALSE, result |-> NoIntercept ]
    ELSE [ raised |-> TRUE, result |-> NoIntercept ]

\* lines 260-267: what intercept_trade hands to its caller when _run returned,
\* raised, or was cancelled by wait_for
intercept_trade_returns(run) ==
    IF run.kind = "return" THEN [ raised |-> FALSE, result |-> run.result ]
    ELSE [ raised |-> FALSE, result |-> NoIntercept ]

InterceptInit ==
    /\ ChatInit
    /\ BatchIdle
    /\ expander = Idle
    /\ intercept = [ pc |-> "called", agents_valid |-> << >>, results |-> << >>,
                     cause |-> "none", raised |-> FALSE, result |-> NoIntercept ]
    /\ whatif = Idle
    /\ mutation = Idle
    /\ trading = Idle
    /\ monitor = Idle
    /\ sockets = Idle
    /\ group = Idle
    /\ StoreIdle

InterceptReturn(run) ==
    LET out == intercept_trade_returns(run) IN
    intercept' = [ intercept EXCEPT !.pc = "returned", !.cause = run.kind,
                                    !.raised = out.raised, !.result = out.result ]

\* lines 182-190: the snapshot, the simulated trade and the rules are obtained
\* (any of them can raise) and the capabilities are chosen
InterceptPrepare ==
    /\ intercept.pc = "called"
    /\ \/ InterceptReturn([ kind |-> "raise", result |-> NoIntercept ])
       \/ \E agents \in SelectedAgents :
             intercept' = [ intercept EXCEPT
                              !.pc = "gather", !.agents_valid = agents,
                              !.results = [ i \in 1..Len(agents) |-> TradePending ] ]
    /\ UNCHANGED offInterceptVars

InterceptAgentReturns ==
    /\ intercept.pc = "gather"
    /\ \E i \in 1..Len(intercept.agents_valid) :
          /\ intercept.results[i] = TradePending
          /\ \E o \in TradeAgentOutcomes(intercept.agents_valid[i]) :
                intercept' = [ intercept EXCEPT !.results[i] = o ]
    /\ UNCHANGED offInterceptVars

InterceptCollect ==
    /\ intercept.pc = "gather"
    /\ \A i \in 1..Len(intercept.results) : intercept.results[i] # TradePending
    /\ InterceptReturn(TradeRun(intercept.results))
    /\ UNCHANGED offInterceptVars

\* the deadline of wait_for passes while _run is suspended in an await
InterceptTimeout ==
    /\ intercept.pc \in { "called", "gather" }
    /\ InterceptReturn([ kind |-> "timeout", result |-> NoIntercept ])
    /\ UNCHANGED offInterceptVars

InterceptNext ==
    \/ InterceptPrepare
    \/ InterceptAgentReturns
    \/ InterceptCollect
    \/ InterceptTimeout

InterceptSpec == InterceptInit /\ [][InterceptNext]_vars

\* The event loop runs the timer of wait_for: while _run has not returned, the
\* deadline passes and _run is cancelled.
InterceptLiveSpec == InterceptSpec /\ WF_vars(InterceptTimeout)

-----------------------------------------------------------------------------
(* _compute_whatif_delta: backend/api/routes.py. Amounts are in thousandths  *)
(* of a dollar, so that round(x, 2) is a rounding to a multiple of 10.        *)

\* bound: findings in the baseline list and in the modified list
MaxListed == 2

\* a finding as _compute_whatif_delta reads it
WhatIfFinding(title, impact) == [ title |-> title, dollar_impact |-> impact ]

\* findings with the impacts 100, 150, 100.004 and 100.014, and one whose
\* dollar_impact is text
WhatIfFindings ==
    { WhatIfFinding(t, Impact("number", v)) :
        t \in { "X", "Y" }, v \in { 100000, 150000, 100004, 100014 } }
    \cup { WhatIfFinding("X", Impact("text", 0)) }

\* {f["title"]: f for f in list}: of two findings with one title the later
ByTitle(list) ==
    [ t \in { list[i].title : i \in 1..Len(list) } |->
        list[Greatest({ i \in 1..Len(list) : list[i].title = t })] ]

\* round(x, 2), to the nearest multiple of 10 (a tie, which the impacts above
\* do not produce, to the even one)
Round2(x) ==
    LET r == x % 10 IN
    IF r < 5 THEN x - r
    ELSE IF r > 5 THEN x - r + 10
    ELSE IF ((x - r) \div 10) % 2 = 0 THEN x - r ELSE x - r + 10

\* mutant of whatif_direction: a difference of exactly one cent is unchanged
whatif_direction_wide(delta_impact) ==
    IF Abs(delta_impact) <= 10 THEN "unchanged"
    ELSE IF delta_impact > 0 THEN "improved" ELSE "worsened"

\* lines 1011-1015, on the difference before it is rounded
whatif_direction(delta_impact) ==
    IF Abs(delta_impact) < 10 THEN "unchanged"
    ELSE IF delta_impact > 0 THEN "improved" ELSE "worsened"

\* float((b or {}).get("dollar_impact", 0)) of the finding under the title, if any
ImpactUnder(by_title, title) ==
    IF title \in DOMAIN by_title THEN by_title[title].dollar_impact.v ELSE 0

\* the dict appended for one title (lines 1005-1030)
DeltaEntry(b_by_title, m_by_title, title) ==
    LET b_impact == ImpactUnder(b_by_title, title)
        m_impact == ImpactUnder(m_by_title, title)
    IN  [ title |-> title,
          baseline_dollar_impact |-> Round2(b_impact),
          modified_dollar_impact |-> Round2(m_impact),
          delta_dollar_impact |-> Round2(m_impact - b_impact),
          direction |-> whatif_direction(m_impact - b_impact),
          present_in |-> IF title \in DOMAIN b_by_title /\ title \in DOMAIN m_by_title
                         THEN "both"
                         ELSE IF title \in DOMAIN m_by_title THEN "modified_only"
                         ELSE "baseline_only" ]

\* _compute_whatif_delta when the set all_titles is iterated in this order;
\* float() raises on a dollar_impact that is text
compute_whatif_delta(baseline, modified, order) ==
    LET b_by_title == ByTitle(baseline)
        m_by_title == ByTitle(modified)
    IN  IF \E t \in DOMAIN b_by_title : b_by_title[t].dollar_impact.kind # "number"
        THEN [ raised |-> TRUE, delta |-> << >> ]
        ELSE IF \E t \in DOMAIN m_by_title : m_by_title[t].dollar_impact.kind # "number"
        THEN [ raised |-> TRUE, delta |-> << >> ]
        ELSE LET delta == [ i \in 1..Len(order) |->
                              DeltaEntry(b_by_title, m_by_title, order[i]) ]
             IN  [ raised |-> FALSE,
                   delta |-> SortedDescending(delta,
                                [ i \in 1..Len(delta) |-> Abs(delta[i].delta_dollar_impact) ]) ]

WhatIfInit ==
    /\ ChatInit
    /\ BatchIdle
    /\ expander = Idle
    /\ intercept = Idle
    /\ \E nb \in 0..MaxListed : \E baseline \in [ 1..nb -> WhatIfFindings ] :
       \E nm \in 0..MaxListed : \E modified \in [ 1..nm -> WhatIfFindings ] :
          whatif = [ pc |-> "collected", baseline_findings |-> baseline,
                     modified_findings |-> modified, raised |-> FALSE, delta |-> << >> ]
    /\ mutation = Idle
    /\ trading = Idle
    /\ monitor = Idle
    /\ sockets = Idle
    /\ group = Idle
    /\ StoreIdle

\* line 1087
ComputeDelta ==
    /\ whatif.pc = "collected"
    /\ \E order \in SetOrders(DOMAIN ByTitle(whatif.baseline_findings)
                              \cup DOMAIN ByTitle(whatif.modified_findings)) :
          LET r == compute_whatif_delta(whatif.baseline_findings,
                                        whatif.modified_findings, order)
          IN  whatif' = [ whatif EXCEPT !.pc = "compared", !.raised = r.raised,
                                        !.delta = r.delta ]
    /\ UNCHANGED offWhatIfVars

WhatIfNext == ComputeDelta

WhatIfSpec == WhatIfInit /\ [][WhatIfNext]_vars

-----------------------------------------------------------------------------
(* Hypothetical mutations of a portfolio snapshot: _apply_whatif              *)
(* (backend/api/routes.py) and _simulate_trade                                *)
(* (backend/services/interception.py). Python objects are cells of a heap,    *)
(* addressed by identity; a value is a number, a string, None or a reference  *)
(* to a cell. Amounts are whole dollars and interest rates are per mille.     *)

Num(n) == [kind |-> "num", n |-> n, s |-> "", ref |-> 0]

Str(s) == [kind |-> "str", n |-> 0, s |-> s, ref |-> 0]

NoneValue == [kind |-> "none", n |-> 0, s |-> "", ref |-> 0]

\* what parameters.get("amount", 0) finds when the key is absent
Missing == [kind |-> "missing", n |-> 0, s |-> "", ref |-> 0]

Ref(id) == [kind |-> "ref", n |-> 0, s |-> "", ref |-> id]

Dict(fields) == [fields |-> fields, items |-> << >>]

List(items) == [fields |-> << >>, items |-> items]

PortfolioId == 1

Account(id, account_type, balance, room, positions) ==
    Dict([id |-> Num(id), account_type |-> Str(account_type), balance_cad |-> Num(balance),
          total_value_cad |-> Num(balance + 1000), contribution_room_remaining |-> room,
          positions |-> Ref(positions)])

Position(ticker, shares, avg_cost, price) ==
    Dict([ticker |-> Str(ticker), shares |-> Num(shares), avg_cost_cad |-> Num(avg_cost),
          current_price |-> Num(price), current_value_cad |-> Num(shares * price),
          unrealized_gain_loss_cad |-> Num(shares * (price - avg_cost))])

\* The snapshot of get_portfolio_snapshot: two accounts, the first one holding
\* two positions; the margin summary is a dict or None.
Portfolio(account_type, rrsp_room, has_margin) ==
    LET cells == (1 :> Dict([accounts |-> Ref(2), contribution_room |-> Ref(3),
                             margin |-> IF has_margin THEN Ref(4) ELSE NoneValue]))
              @@ (2 :> List(<< Ref(5), Ref(6) >>))
              @@ (3 :> Dict([rrsp |-> rrsp_room, tfsa |-> Num(7000)]))
              @@ (4 :> Dict([debit_balance |-> Num(3000), interest_rate |-> Num(62),
                             annual_cost |-> Num(186)]))
              @@ (5 :> Account(1, account_type, IF account_type = "margin" THEN -3000 ELSE 4000,
                               rrsp_room, 7))
              @@ (6 :> Account(2, "tfsa", 2000, NoneValue, 8))
              @@ (7 :> List(<< Ref(9), Ref(10) >>))
              @@ (8 :> List(<< >>))
              @@ (9 :> Position("SHOP", 10, 70, 100))
              @@ (10 :> Position("TD", 10, 70, 40))
    IN  [ i \in (1..10) \ (IF has_margin THEN {} ELSE {4}) |-> cells[i] ]

Refs(o) ==
    { o.fields[f].ref : f \in { g \in DOMAIN o.fields : o.fields[g].kind = "ref" } }
    \cup { o.items[i].ref : i \in DOMAIN o.items }

RECURSIVE Reachable(_, _)
Reachable(h, ids) ==
    LET more == ids \cup UNION { Refs(h[i]) : i \in ids }
    IN  IF more = ids THEN ids ELSE Reachable(h, more)

\* The value an object stands for, identities forgotten: what == compares.
RECURSIVE Value(_, _)
Value(h, v) ==
    IF v.kind = "ref"
    THEN [fields |-> [ f \in DOMAIN h[v.ref].fields |-> Value(h, h[v.ref].fields[f]) ],
          items |-> [ i \in DOMAIN h[v.ref].items |-> Value(h, h[v.ref].items[i]) ]]
    ELSE v

\* copy.copy: a new top-level object holding the same references
shallow_copy(h, root) ==
    LET at == Greatest(DOMAIN h)
    IN  [heap |-> h @@ ((root + at) :> h[root]), root |-> root + at]

\* copy.deepcopy: a new object for every object reachable from root
deepcopy(h, root) ==
    LET at == Greatest(DOMAIN h)
        old == Reachable(h, {root})
        moved(v) == IF v.kind = "ref" THEN Ref(v.ref + at) ELSE v
        copied(o) == [fields |-> [ f \in DOMAIN o.fields |-> moved(o.fields[f]) ],
                      items |-> [ i \in DOMAIN o.items |-> moved(o.items[i]) ]]
    IN  [heap |-> [ i \in DOMAIN h \cup { j + at : j \in old } |->
                      IF i \in DOMAIN h THEN h[i] ELSE copied(h[i - at]) ],
         root |-> root + at]

Max0(n) == IF n > 0 THEN n ELSE 0

\* `x or 0`
OrZero(v) == IF v.kind = "num" THEN v.n ELSE 0

Accounts(h, p) == h[h[p].fields.accounts.ref].items

\* the loop of lines 955-960 and 967-972
RECURSIVE contribute(_, _, _, _, _)
contribute(h, accts, i, account_type, amount) ==
    IF i > Len(accts) THEN h
    ELSE LET a == accts[i].ref
         IN  IF h[a].fields.account_type = Str(account_type)
             THEN contribute([h EXCEPT
                                ![a].fields.contribution_room_remaining = Num(Max0(OrZero(@) - amount)),
                                ![a].fields.balance_cad = Num(@.n + amount),
                                ![a].fields.total_value_cad = Num(@.n + amount)],
                             accts, i + 1, account_type, amount)
             ELSE contribute(h, accts, i + 1, account_type, amount)

\* lines 961-964 and 973-976
contribution_room(h, modified, key, amount) ==
    LET room == h[modified].fields.contribution_room.ref
    IN  IF h[room].fields[key].kind # "none"
        THEN [h EXCEPT ![room].fields[key] = Num(Max0(OrZero(@) - amount))]
        ELSE h

\* the loop of lines 979-983
RECURSIVE pay_margin_accounts(_, _, _, _)
pay_margin_accounts(h, accts, i, amount) ==
    IF i > Len(accts) THEN h
    ELSE LET a == accts[i].ref
         IN  IF h[a].fields.account_type = Str("margin")
             THEN pay_margin_accounts([h EXCEPT
                                         ![a].fields.balance_cad = Num(-Max0(Abs(@.n) - amount))],
                                      accts, i + 1, amount)
             ELSE pay_margin_accounts(h, accts, i + 1, amount)

\* lines 984-992: a new dict is bound to modified["margin"]. Debits and
\* amounts are whole thousands, so new_debit * rate is a whole dollar and
\* round(..., 2) leaves it as it is.
pay_margin_summary(h, modified, amount) ==
    IF h[modified].fields.margin.kind = "ref"
    THEN LET m == h[h[modified].fields.margin.ref].fields
             new_debit == Max0(m.debit_balance.n - amount)
             rate == IF m.interest_rate.kind = "num" /\ m.interest_rate.n # 0
                     THEN m.interest_rate.n ELSE 62
             new == Greatest(DOMAIN h) + 1
         IN  [h EXCEPT ![modified].fields.margin = Ref(new)]
             @@ (new :> Dict([debit_balance |-> Num(new_debit), interest_rate |-> Num(rate),
                              annual_cost |-> Num((new_debit * rate) \div 1000)]))
    ELSE h

Scenarios == {"rrsp_contribution", "tfsa_contribution", "pay_margin", "sell_position"}

\* parameters, written by what parameters.get("amount", 0) finds
Parameters == { [amount |-> a] : a \in {Missing, Num(2000), Num(9000), Str("lots")} }

\* _apply_whatif; float() of a text that is no number raises ValueError
apply_whatif(h, portfolio, scenario, parameters) ==
    LET c == deepcopy(h, portfolio)
        modified == c.root
        accts == Accounts(c.heap, modified)
    IN  IF parameters.amount.kind = "str"
        THEN [heap |-> c.heap, returned |-> 0, raised |-> TRUE]
        ELSE LET amount == parameters.amount.n
             IN  [heap |-> CASE scenario = "rrsp_contribution" ->
                                 contribution_room(contribute(c.heap, accts, 1, "rrsp", amount),
                                                   modified, "rrsp", amount)
                             [] scenario = "tfsa_contribution" ->
                                 contribution_room(contribute(c.heap, accts, 1, "tfsa", amount),
                                                   modified, "tfsa", amount)
                             [] scenario = "pay_margin" ->
                                 pay_margin_summary(pay_margin_accounts(c.heap, accts, 1, amount),
                                                    modified, amount)
                             [] OTHER -> c.heap,
                  returned |-> modified, raised |-> FALSE]

\* str.upper on the tickers of the model
Upper(t) == CASE t = "shop" -> "SHOP" [] t = "td" -> "TD" [] t = "xyz" -> "XYZ" [] OTHER -> t

Held(h, positions, ticker_upper) ==
    { i \in 1..Len(positions) : Upper(h[positions[i].ref].fields.ticker.s) = ticker_upper }

\* the loop of lines 66-79; shares are whole, so remaining > 0.0001 is remaining > 0
RECURSIVE sell_positions(_, _, _, _, _, _)
sell_positions(h, positions, i, ticker_upper, shares, new_positions) ==
    IF i > Len(positions) THEN [heap |-> h, items |-> new_positions]
    ELSE LET pos == h[positions[i].ref].fields
             remaining == pos.shares.n - shares
             np == Greatest(DOMAIN h) + 1
         IN  IF Upper(pos.ticker.s) # ticker_upper
             THEN sell_positions(h, positions, i + 1, ticker_upper, shares,
                                 Append(new_positions, positions[i]))
             ELSE IF remaining > 0
             THEN sell_positions(
                      h @@ (np :> Dict([pos EXCEPT
                              !.shares = Num(remaining),
                              !.current_value_cad = Num(remaining * pos.current_price.n),
                              !.unrealized_gain_loss_cad =
                                  Num(remaining * (pos.current_price.n - pos.avg_cost_cad.n))])),
                      positions, i + 1, ticker_upper, shares, Append(new_positions, Ref(np)))
             ELSE sell_positions(h, positions, i + 1, ticker_upper, shares, new_positions)

\* lines 64-81
sell(h, a, ticker_upper, shares, trade_value) ==
    LET sold == sell_positions(h, h[h[a].fields.positions.ref].items, 1, ticker_upper, shares, << >>)
        new == Greatest(DOMAIN sold.heap) + 1
    IN  [sold.heap EXCEPT ![a].fields.positions = Ref(new),
                          ![a].fields.balance_cad = Num(@.n + trade_value)]
        @@ (new :> List(sold.items))

\* lines 83-113. The position of line 86 exists, since line 59 has left when
\* no position holds the ticker, so the append of lines 99-112 is never run.
\* The values of the model make the new average a whole number.
buy(h, a, ticker_upper, shares, trade_value) ==
    LET positions == h[h[a].fields.positions.ref].items
        pos == positions[Least(Held(h, positions, ticker_upper))].ref
        old_shares == h[pos].fields.shares.n
        new_shares == old_shares + shares
        old_cost == old_shares * h[pos].fields.avg_cost_cad.n
        new_avg == (old_cost + trade_value) \div new_shares
        price == h[pos].fields.current_price.n
    IN  [h EXCEPT ![pos].fields.shares = Num(new_shares),
                  ![pos].fields.avg_cost_cad = Num(new_avg),
                  ![pos].fields.current_value_cad = Num(new_shares * price),
                  ![pos].fields.unrealized_gain_loss_cad = Num(new_shares * (price - new_avg)),
                  ![a].fields.balance_cad = Num(@.n - trade_value)]

AccountHits(h, p, account_id) ==
    { i \in 1..Len(Accounts(h, p)) : h[Accounts(h, p)[i].ref].fields.id = Num(account_id) }

\* _simulate_trade
simulate_trade(h, portfolio, account_id, ticker, shares, action) ==
    LET c == deepcopy(h, portfolio)
        p == c.root
        ticker_upper == Upper(ticker)
        hits == AccountHits(c.heap, p, account_id)
        a == Accounts(c.heap, p)[Least(hits)].ref
        positions == c.heap[c.heap[a].fields.positions.ref].items
        held == Held(c.heap, positions, ticker_upper)
        price == c.heap[positions[Least(held)].ref].fields.current_price.n
        trade_value == shares * price
    IN  [heap |-> IF hits = {} \/ held = {} THEN c.heap
                  ELSE CASE action = "sell" -> sell(c.heap, a, ticker_upper, shares, trade_value)
                         [] action = "buy" -> buy(c.heap, a, ticker_upper, shares, trade_value)
                         [] OTHER -> c.heap,
         returned |-> p, raised |-> FALSE]

TradeAccountIds == {1, 2, 7}

TradeTickers == {"shop", "TD", "xyz"}

TradeShares == {5, 10}

TradeActions == {"sell", "buy", "hold"}

NoCall == [fn |-> "", scenario |-> "", parameters |-> [amount |-> Missing], account_id |-> 0,
           ticker |-> "", shares |-> 0, action |-> ""]

MutationInit ==
    /\ ChatInit
    /\ BatchIdle
    /\ expander = Idle
    /\ intercept = Idle
    /\ whatif = Idle
    /\ trading = Idle
    /\ monitor = Idle
    /\ sockets = Idle
    /\ group = Idle
    /\ StoreIdle
    /\ \E account_type \in {"rrsp", "margin"}, rrsp_room \in {NoneValue, Num(5000)},
          has_margin \in BOOLEAN :
         LET h == Portfolio(account_type, rrsp_room, has_margin)
         IN  mutation = [pc |-> "snapshot", before |-> h, heap |-> h, call |-> NoCall,
                         returned |-> 0, raised |-> FALSE]

\* What the next request finds: the snapshot's objects as they are now; the
\* value the previous call returned was local to its request and is gone.
Snapshot == [ i \in DOMAIN mutation.before |-> mutation.heap[i] ]

\* POST /chat/whatif calls _apply_whatif on the session's snapshot
ApplyWhatIf ==
    /\ mutation.pc \in {"snapshot", "returned"}
    /\ \E scenario \in Scenarios, parameters \in Parameters :
         LET r == apply_whatif(Snapshot, PortfolioId, scenario, parameters)
         IN  mutation' = [mutation EXCEPT
                 !.pc = "returned", !.heap = r.heap, !.returned = r.returned, !.raised = r.raised,
                 !.call = [NoCall EXCEPT !.fn = "_apply_whatif", !.scenario = scenario,
                                         !.parameters = parameters]]
    /\ UNCHANGED offMutationVars

\* intercept_trade calls _simulate_trade on the snapshot it has just read
SimulateTrade ==
    /\ mutation.pc \in {"snapshot", "returned"}
    /\ \E account_id \in TradeAccountIds, ticker \in TradeTickers, shares \in TradeShares,
          action \in TradeActions :
         LET r == simulate_trade(Snapshot, PortfolioId, account_id, ticker, shares, action)
         IN  mutation' = [mutation EXCEPT
                 !.pc = "returned", !.heap = r.heap, !.returned = r.returned, !.raised = r.raised,
                 !.call = [NoCall EXCEPT !.fn = "_simulate_trade", !.account_id = account_id,
                                         !.ticker = ticker, !.shares = shares, !.action = action]]
    /\ UNCHANGED offMutationVars

MutationNext == ApplyWhatIf \/ SimulateTrade

MutationSpec == MutationInit /\ [][MutationNext]_vars

-----------------------------------------------------------------------------
(* The session requests of one day on the conversations table:                *)
(* POST /chat/session, DELETE /chat/session and the save of a chat turn       *)
(* (backend/api/routes.py). Every request has its own database session; the   *)
(* statements of different requests interleave at the awaits. A session id    *)
(* is written as the number of the request that made it.                      *)

MaxRequests == 4

Record(role, request) == [role |-> role, request |-> request]

Row(id, session_id, messages, findings) ==
    [id |-> id, session_id |-> session_id, messages |-> messages,
     last_findings |-> findings]

\* the greeting that the create request of this number generated
GreetingOf(request) == [text |-> "generated", request |-> request]

WelcomeBack == [text |-> "Welcome back. Ask me anything.", request |-> 0]

NoGreeting == [text |-> "", request |-> 0]

\* domain_findings of a turn: empty on the direct branch, keyed by capability
\* name on the agentic one
TurnFindings == { << >>, ("allocation" :> [text |-> "finding", request |-> 0]) }

\* lines 620-623: existing.last_findings.get("greeting_data", {}) and then
\* stored.get("message", "Welcome back. Ask me anything.")
RestoredGreeting(findings) ==
    IF "greeting_data" \in DOMAIN findings THEN findings["greeting_data"]
    ELSE WelcomeBack

Request(kind) ==
    [kind |-> kind, pc |-> "returned", session_id |-> 0, restored |-> FALSE, conv_id |-> 0,
     messages |-> << >>, alone |-> FALSE, before |-> << >>, after |-> << >>, wrote |-> FALSE,
     greeting |-> NoGreeting, domain_findings |-> << >>]

InFlight == { i \in DOMAIN requests : requests[i].pc # "returned" }

RowsWithId(id) == { i \in DOMAIN conversations : conversations[i].id = id }

RowsOfSession(session_id) ==
    { i \in DOMAIN conversations : conversations[i].session_id = session_id }

\* the integer primary key of SQLite: one more than the largest id in the table
NextRowId ==
    IF conversations = << >> THEN 1
    ELSE Greatest({ conversations[i].id : i \in DOMAIN conversations }) + 1

\* the clear before this request started when nothing was in flight, has
\* returned, and nothing else has been requested since
AfterClear ==
    /\ requests # << >>
    /\ InFlight = {}
    /\ requests[Len(requests)].kind = "clear"
    /\ requests[Len(requests)].alone

SessionInit ==
    /\ ChatInit
    /\ BatchIdle
    /\ expander = Idle
    /\ intercept = Idle
    /\ whatif = Idle
    /\ mutation = Idle
    /\ trading = Idle
    /\ monitor = Idle
    /\ sockets = Idle
    /\ group = Idle
    /\ conversations = << >>
    /\ requests = << >>

\* create_chat_session, lines 609-628: today's first row is returned as
\* restored; without one the request goes on to generate the greeting
CreateSelect ==
    /\ Len(requests) < MaxRequests
    /\ requests' = Append(requests,
         IF conversations # << >>
         THEN [Request("create") EXCEPT !.session_id = conversations[1].session_id,
                                        !.restored = TRUE, !.alone = AfterClear,
                                        !.after = conversations[1].messages,
                                        !.greeting = RestoredGreeting(conversations[1].last_findings)]
         ELSE [Request("create") EXCEPT !.pc = "greeting", !.session_id = Len(requests) + 1,
                                        !.alone = AfterClear])
    /\ UNCHANGED << conversations, offStoreVars >>

\* create_chat_session, lines 629-653: after the greeting the row is added
CreateCommit ==
    \E k \in DOMAIN requests :
        /\ requests[k].kind = "create"
        /\ requests[k].pc = "greeting"
        /\ conversations' = Append(conversations,
               Row(NextRowId, requests[k].session_id, << Record("greeting", k) >>,
                   "greeting_data" :> GreetingOf(k)))
        /\ requests' = [requests EXCEPT ![k].pc = "returned",
                                        ![k].greeting = GreetingOf(k),
                                        ![k].after = << Record("greeting", k) >>]
        /\ UNCHANGED offStoreVars

\* clear_chat_session, lines 584-591
ClearSelect ==
    /\ Len(requests) < MaxRequests
    /\ requests' = Append(requests,
         IF conversations # << >>
         THEN [Request("clear") EXCEPT !.pc = "selected", !.conv_id = conversations[1].id,
                                       !.alone = (InFlight = {})]
         ELSE [Request("clear") EXCEPT !.alone = (InFlight = {})])
    /\ UNCHANGED << conversations, offStoreVars >>

\* clear_chat_session, lines 592-595
ClearDelete ==
    \E k \in DOMAIN requests :
        /\ requests[k].kind = "clear"
        /\ requests[k].pc = "selected"
        /\ conversations' = SelectSeq(conversations, LAMBDA row : row.id # requests[k].conv_id)
        /\ requests' = [requests EXCEPT ![k].pc = "returned"]
        /\ UNCHANGED offStoreVars

\* chat_message, lines 673-680: a turn starts on a session that exists
TurnStart ==
    /\ Len(requests) < MaxRequests
    /\ \E i \in DOMAIN conversations, findings \in TurnFindings :
         requests' = Append(requests,
             [Request("save") EXCEPT !.pc = "turn", !.conv_id = conversations[i].id,
                                     !.session_id = conversations[i].session_id,
                                     !.domain_findings = findings])
    /\ UNCHANGED << conversations, offStoreVars >>

\* _save_chat_exchange, lines 545-570
SaveSelect ==
    \E k \in DOMAIN requests :
        /\ requests[k].kind = "save"
        /\ requests[k].pc = "turn"
        /\ requests' =
             IF RowsWithId(requests[k].conv_id) = {}
             THEN [requests EXCEPT ![k].pc = "returned"]
             ELSE [requests EXCEPT
                     ![k].pc = "read",
                     ![k].messages =
                         conversations[Least(RowsWithId(requests[k].conv_id))].messages
                         \o << Record("user", k), Record("assistant", k) >>]
        /\ UNCHANGED << conversations, offStoreVars >>

\* _save_chat_exchange, lines 571-574: the UPDATE writes the whole list built
\* at lines 552-570; the UPDATE of a row that is gone matches nothing and the
\* commit raises
SaveCommit ==
    \E k \in DOMAIN requests :
        /\ requests[k].kind = "save"
        /\ requests[k].pc = "read"
        /\ IF RowsWithId(requests[k].conv_id) = {}
           THEN /\ requests' = [requests EXCEPT ![k].pc = "returned"]
                /\ UNCHANGED conversations
           ELSE LET i == Least(RowsWithId(requests[k].conv_id))
                    written == requests[k].messages
                IN  /\ conversations' = [conversations EXCEPT
                                            ![i].messages = written,
                                            ![i].last_findings = requests[k].domain_findings]
                    /\ requests' = [requests EXCEPT
                           ![k].pc = "returned", ![k].wrote = TRUE,
                           ![k].before = conversations[i].messages, ![k].after = written]
        /\ UNCHANGED offStoreVars

SessionNext ==
    \/ CreateSelect
    \/ CreateCommit
    \/ ClearSelect
    \/ ClearDelete
    \/ TurnStart
    \/ SaveSelect
    \/ SaveCommit

SessionSpec == SessionInit /\ [][SessionNext]_vars

-----------------------------------------------------------------------------
(* The concurrent capability groups: every asyncio.gather over capability     *)
(* calls, and the merge that follows it. supervisor_node                      *)
(* (backend/graph/graph.py) behind POST /analyze, the chat turn and           *)
(* POST /chat/whatif (backend/api/routes.py), intercept_trade, the proactive  *)
(* greeting and the advisor report.                                           *)

GroupKinds == {"analyze", "chat", "whatif", "intercept", "proactive", "advisor"}

\* whether the gather of the group is given return_exceptions=True
ReturnExceptions(kind) == kind # "analyze"

\* whether the group merges into a dict keyed by domain or into one list
MergesDict(kind) == kind \in {"analyze", "chat"}

\* the capabilities a group runs, in the order of its gather
GroupMembers(kind) ==
    CASE kind \in {"analyze", "proactive", "advisor"} -> { ALL_AGENTS }
      [] kind = "intercept" -> SelectedAgents
      [] kind = "whatif" -> { << "allocation", "timing" >>, << "allocation" >>,
                              << "rate_arbitrage" >>, << "tax_implications", "tlh" >> }
      [] kind = "chat" -> { << "tlh" >>, << "tax_implications", "timing" >>, ALL_AGENTS }

GroupFinding(agent) == [ title |-> agent, dollar_impact |-> 100 ]

\* how one capability call ends: the model's JSON carries findings, the model
\* call raises, the output does not parse, or a statement of _call_agent
\* outside its try block raises (the prompt file, json.dumps of the state,
\* the construction of the client)
CallOutcomes == {"findings", "model_raises", "unparseable", "call_raises"}

\* _call_agent: the value of the awaited call
call_agent(agent, outcome) ==
    IF outcome = "call_raises"
    THEN [ raised |-> TRUE, domain_findings |-> EmptyDict ]
    ELSE [ raised |-> FALSE,
           domain_findings |->
               DictSet(EmptyDict, AGENT_TO_DOMAIN_KEY[agent],
                       IF outcome = "findings" THEN << GroupFinding(agent) >> ELSE << >>) ]

CallPending == [ raised |-> FALSE, domain_findings |-> EmptyDict, pending |-> TRUE ]

Called(result) == [ raised |-> result.raised, domain_findings |-> result.domain_findings,
                    pending |-> FALSE ]

\* merged.update(result.get("domain_findings", {})) over the results that are
\* no exception
RECURSIVE merge_dicts(_, _, _)
merge_dicts(results, i, merged) ==
    IF i > Len(results) THEN merged
    ELSE merge_dicts(results, i + 1,
                     IF results[i].raised THEN merged
                     ELSE Update(merged, results[i].domain_findings))

\* the findings of one result, as the loops over .values() extend a list
ValuesOf(d) ==
    IF DOMAIN d = {} THEN << >> ELSE d[CHOOSE k \in DOMAIN d : TRUE]

RECURSIVE merge_lists(_, _, _)
merge_lists(results, i, out) ==
    IF i > Len(results) THEN out
    ELSE merge_lists(results, i + 1,
                     IF results[i].raised THEN out
                     ELSE out \o ValuesOf(results[i].domain_findings))

GroupInit ==
    /\ ChatInit
    /\ BatchIdle
    /\ expander = Idle
    /\ intercept = Idle
    /\ whatif = Idle
    /\ mutation = Idle
    /\ trading = Idle
    /\ monitor = Idle
    /\ sockets = Idle
    /\ StoreIdle
    /\ \E kind \in GroupKinds : \E members \in GroupMembers(kind) :
         group = [ pc |-> "gathering", kind |-> kind, members |-> members,
                   outcomes |-> [ i \in DOMAIN members |-> "" ],
                   results |-> [ i \in DOMAIN members |-> CallPending ],
                   merged |-> EmptyDict, listed |-> << >> ]

\* one capability call of the group ends
CapabilityReturns ==
    /\ group.pc = "gathering"
    /\ \E i \in DOMAIN group.members, outcome \in CallOutcomes :
         /\ group.results[i].pending
         /\ group' = [group EXCEPT
                        !.outcomes[i] = outcome,
                        !.results[i] = Called(call_agent(group.members[i], outcome))]
    /\ UNCHANGED offGroupVars

\* a gather without return_exceptions raises in its caller the first
\* exception one of its awaitables raises
GatherRaises ==
    /\ group.pc = "gathering"
    /\ ~ReturnExceptions(group.kind)
    /\ \E i \in DOMAIN group.members : group.results[i].raised
    /\ group' = [group EXCEPT !.pc = "raised"]
    /\ UNCHANGED offGroupVars

\* the gather returns the results in the order of its arguments and the
\* group merges them
GroupMerge ==
    /\ group.pc = "gathering"
    /\ \A i \in DOMAIN group.members : ~group.results[i].pending
    /\ ReturnExceptions(group.kind) \/ \A i \in DOMAIN group.members : ~group.results[i].raised
    /\ group' = [group EXCEPT
                   !.pc = "returned",
                   !.merged = IF MergesDict(group.kind)
                              THEN merge_dicts(group.results, 1, EmptyDict) ELSE EmptyDict,
                   !.listed = IF MergesDict(group.kind)
                              THEN << >> ELSE merge_lists(group.results, 1, << >>)]
    /\ UNCHANGED offGroupVars

GroupNext == CapabilityReturns \/ GatherRaises \/ GroupMerge

GroupSpec == GroupInit /\ [][GroupNext]_vars

-----------------------------------------------------------------------------
(* The trade requests: backend/services/trading.py. A share count is in       *)
(* units of 1e-9 share, so that round(x, 8) is a rounding to a multiple of    *)
(* 10 and the threshold 0.000001 is 1000; balances and amounts are whole      *)
(* cents; a price is in 1e-5 dollar per unit of share count, so that          *)
(* round(shares * price, 2) is shares * price rounded to a multiple of 1000.  *)
(* The average cost of a position is read by no claim and is left out.        *)

MaxTransactions == 2

SELF_DIRECTED == "self_directed"

REGISTERED_TYPES == {"tfsa", "rrsp", "fhsa"}

\* round half to even to a multiple of q, as round() does on a decimal place
RoundTo(x, q) ==
    LET r == x % q IN
    IF 2 * r < q THEN x - r
    ELSE IF 2 * r > q THEN x - r + q
    ELSE IF ((x - r) \div q) % 2 = 0 THEN x - r ELSE x - r + q

\* round(shares * price_cad, 2), in cents
TradeTotal(shares, price_cad) == RoundTo(shares * price_cad, 1000) \div 1000

\* round(x, 8) of a share count
RoundShares(x) == RoundTo(x, 10)

DustShares == 1000

TradingAccountIds == {1, 2, 9}

ShareCounts == {-2000, 0, 14, 2000}

Prices == {50}

Amounts == {-100, 0, 100}

NoPosition == [held |-> FALSE, shares |-> 0]

Book(accounts, positions, transactions) ==
    [accounts |-> accounts, positions |-> positions, transactions |-> transactions]

\* what a request has done: the book it left and how it ended
Done(book, total) == [status |-> "ok", book |-> book, total |-> total]

\* an HTTPException raised before anything was changed
Rejected(book) == [status |-> "rejected", book |-> book, total |-> 0]

\* an exception after changes to the objects of the request's session
Failed(book) == [status |-> "raised", book |-> book, total |-> 0]

\* lines 99-101 divide by the new share count after the cash was taken from
\* the account object (line 92)
execute_buy(book, account_id, shares, price_cad) ==
    IF account_id \notin DOMAIN book.accounts THEN Rejected(book)
    ELSE LET acct == book.accounts[account_id]
             total == TradeTotal(shares, price_cad)
             pos == book.positions[account_id]
         IN  IF acct.subtype # SELF_DIRECTED \/ ~acct.is_active THEN Rejected(book)
             ELSE IF acct.balance_cad < total THEN Rejected(book)
             ELSE IF pos.held /\ pos.shares + shares = 0
             THEN Failed([book EXCEPT !.accounts[account_id].balance_cad = @ - total])
             ELSE Done([book EXCEPT
                          !.accounts[account_id].balance_cad = @ - total,
                          !.positions[account_id] =
                              [held |-> TRUE,
                               shares |-> RoundShares((IF pos.held THEN pos.shares ELSE 0) + shares)],
                          !.transactions = @ + 1], total)

execute_sell(book, account_id, shares, price_cad) ==
    IF account_id \notin DOMAIN book.accounts THEN Rejected(book)
    ELSE LET acct == book.accounts[account_id]
             pos == book.positions[account_id]
             proceeds == TradeTotal(shares, price_cad)
             left == RoundShares(pos.shares - shares)
         IN  IF acct.subtype # SELF_DIRECTED THEN Rejected(book)
             ELSE IF ~pos.held \/ pos.shares < shares THEN Rejected(book)
             ELSE Done([book EXCEPT
                          !.positions[account_id] =
                              IF left <= DustShares THEN NoPosition
                              ELSE [held |-> TRUE, shares |-> left],
                          !.accounts[account_id].balance_cad = @ + proceeds,
                          !.transactions = @ + 1], proceeds)

execute_deposit(book, account_id, amount_cad) ==
    IF account_id \notin DOMAIN book.accounts THEN Rejected(book)
    ELSE LET acct == book.accounts[account_id]
             registered == acct.account_type \in REGISTERED_TYPES
         IN  IF amount_cad <= 0 THEN Rejected(book)
             ELSE IF registered /\ amount_cad > acct.contribution_room_remaining
             THEN Rejected(book)
             ELSE Done([book EXCEPT
                          !.accounts[account_id].contribution_room_remaining =
                              IF registered THEN @ - amount_cad ELSE @,
                          !.accounts[account_id].balance_cad = @ + amount_cad,
                          !.accounts[account_id].is_active = TRUE,
                          !.transactions = @ + 1], amount_cad)

execute_withdrawal(book, account_id, amount_cad) ==
    IF account_id \notin DOMAIN book.accounts THEN Rejected(book)
    ELSE IF amount_cad <= 0 THEN Rejected(book)
    ELSE IF book.accounts[account_id].balance_cad < amount_cad THEN Rejected(book)
    ELSE Done([book EXCEPT !.accounts[account_id].balance_cad = @ - amount_cad,
                           !.transactions = @ + 1], amount_cad)

\* from and to may be one account: both names are then the same row
execute_exchange(book, from_account_id, to_account_id, amount_cad) ==
    IF from_account_id \notin DOMAIN book.accounts \/ to_account_id \notin DOMAIN book.accounts
    THEN Rejected(book)
    ELSE IF amount_cad <= 0 THEN Rejected(book)
    ELSE IF book.accounts[from_account_id].balance_cad < amount_cad THEN Rejected(book)
    ELSE LET taken == [book EXCEPT !.accounts[from_account_id].balance_cad = @ - amount_cad]
         IN  Done([taken EXCEPT !.accounts[to_account_id].balance_cad = @ + amount_cad,
                                !.transactions = @ + 2], amount_cad)

NoRequest == [kind |-> "", account_id |-> 0, to_account_id |-> 0, shares |-> 0,
              price_cad |-> 0, amount_cad |-> 0]

NoRun == [request |-> NoRequest, status |-> "", total |-> 0,
          before |-> Book(<< >>, << >>, 0)]

\* The accounts of the seeded user that the requests of the model name: a
\* self-directed RRSP with cash, room and perhaps a position, and an FHSA
\* that is not opened yet.
TradingInit ==
    /\ ChatInit
    /\ BatchIdle
    /\ expander = Idle
    /\ intercept = Idle
    /\ whatif = Idle
    /\ mutation = Idle
    /\ monitor = Idle
    /\ sockets = Idle
    /\ group = Idle
    /\ StoreIdle
    /\ \E position \in {NoPosition, [held |-> TRUE, shares |-> 4000]} :
         trading =
           [pc |-> "open",
            book |-> Book(
                (1 :> [account_type |-> "rrsp", subtype |-> SELF_DIRECTED, is_active |-> TRUE,
                       balance_cad |-> 150, contribution_room_remaining |-> 100])
                @@ (2 :> [account_type |-> "fhsa", subtype |-> "none", is_active |-> FALSE,
                          balance_cad |-> 0, contribution_room_remaining |-> 100]),
                (1 :> position) @@ (2 :> NoPosition),
                0),
            last |-> NoRun, prev |-> NoRun]

\* mutant of Stored: every change is in the database as soon as it is made
StoredAsWritten(before, out) == out.book

\* What the database holds when the request's session is closed (get_db):
\* the changes are written by the one commit at the end of the function, and
\* a request that raised has not reached it.
Stored(before, out) == IF out.status = "ok" THEN out.book ELSE before

\* the request has run: what is stored is what the next request finds
Ran(request, out) ==
    trading' = [trading EXCEPT
                  !.book = Stored(trading.book, out),
                  !.prev = IF trading.last.request.kind = "buy" /\ trading.last.status = "ok"
                           THEN trading.last ELSE NoRun,
                  !.last = [request |-> request, status |-> out.status, total |-> out.total,
                            before |-> trading.book]]

TradeBuy ==
    /\ trading.pc = "open"
    /\ trading.book.transactions < MaxTransactions
    /\ \E account_id \in TradingAccountIds, shares \in ShareCounts, price_cad \in Prices :
         Ran([NoRequest EXCEPT !.kind = "buy", !.account_id = account_id, !.shares = shares,
                               !.price_cad = price_cad],
             execute_buy(trading.book, account_id, shares, price_cad))
    /\ UNCHANGED offTradingVars

TradeSell ==
    /\ trading.pc = "open"
    /\ trading.book.transactions < MaxTransactions
    /\ \E account_id \in TradingAccountIds, shares \in ShareCounts, price_cad \in Prices :
         Ran([NoRequest EXCEPT !.kind = "sell", !.account_id = account_id, !.shares = shares,
                               !.price_cad = price_cad],
             execute_sell(trading.book, account_id, shares, price_cad))
    /\ UNCHANGED offTradingVars

AccountDeposit ==
    /\ trading.pc = "open"
    /\ trading.book.transactions < MaxTransactions
    /\ \E account_id \in TradingAccountIds, amount_cad \in Amounts :
         Ran([NoRequest EXCEPT !.kind = "deposit", !.account_id = account_id,
                               !.amount_cad = amount_cad],
             execute_deposit(trading.book, account_id, amount_cad))
    /\ UNCHANGED offTradingVars

AccountWithdraw ==
    /\ trading.pc = "open"
    /\ trading.book.transactions < MaxTransactions
    /\ \E account_id \in TradingAccountIds, amount_cad \in Amounts :
         Ran([NoRequest EXCEPT !.kind = "withdraw", !.account_id = account_id,
                               !.amount_cad = amount_cad],
             execute_withdrawal(trading.book, account_id, amount_cad))
    /\ UNCHANGED offTradingVars

AccountExchange ==
    /\ trading.pc = "open"
    /\ trading.book.transactions < MaxTransactions
    /\ \E from_account_id \in TradingAccountIds, to_account_id \in TradingAccountIds,
          amount_cad \in Amounts :
         Ran([NoRequest EXCEPT !.kind = "exchange", !.account_id = from_account_id,
                               !.to_account_id = to_account_id, !.amount_cad = amount_cad],
             execute_exchange(trading.book, from_account_id, to_account_id, amount_cad))
    /\ UNCHANGED offTradingVars

TradingNext ==
    \/ TradeBuy
    \/ TradeSell
    \/ AccountDeposit
    \/ AccountWithdraw
    \/ AccountExchange

TradingSpec == TradingInit /\ [][TradingNext]_vars

-----------------------------------------------------------------------------
(* The portfolio monitor (services/monitor.py)

   Time is counted in hours.  A sleep of the model stands for a run of turns
   of the loop in which no trigger condition held: such a check changes
   nothing but the remembered snapshot. *)

MaxChecks == 3

\* just short of each cooldown, and each cooldown
Sleeps == {3, 4, 23, 24, 167, 168}

\* the positions of the snapshot, account by account: one ticker, held in
\* two accounts
all_positions == << "XEQT", "XEQT" >>

\* the RRSP accounts of the snapshot
RrspAccounts == << "rrsp", "rrsp" >>

Conditions ==
    {"price_drop", "price_gain", "margin_interest", "rrsp_deadline", "fhsa",
     "portfolio_down", "tlh_window"}

\* A snapshot, by the trigger conditions that hold in it.  A condition on a
\* position holds for the position in both accounts, the deadline condition
\* for both RRSP accounts.  The keys do not read one another's cooldown, so
\* a run follows one condition, which holds in some snapshots and not in
\* others.
Snapshots(condition) == { {}, {condition} }

CooldownHours(alert_type) ==
    CASE alert_type \in {"price_drop", "price_gain"} -> 4
      [] alert_type \in {"rrsp_deadline", "portfolio_down", "tlh_window"} -> 24
      [] OTHER -> 7 * 24

cooldown_key(alert_type, ticker) == << alert_type, ticker >>

\* mutant of is_cooled: the time of the last alert is compared with half the
\* cooldown
is_cooled_early(cooldowns, key, hours, utcnow) ==
    key \notin DOMAIN cooldowns \/ 2 * (utcnow - cooldowns[key]) >= hours

is_cooled(cooldowns, key, hours, utcnow) ==
    key \notin DOMAIN cooldowns \/ utcnow - cooldowns[key] >= hours

arm(cooldowns, key, utcnow) ==
    [k \in DOMAIN cooldowns \cup {key} |-> IF k = key THEN utcnow ELSE cooldowns[k]]

Site(alert_type, ticker) == [alert_type |-> alert_type, ticker |-> ticker]

RECURSIVE PerItem(_, _)
PerItem(items, alert_type) ==
    IF items = << >> THEN << >>
    ELSE << Site(alert_type, IF alert_type = "rrsp_deadline" THEN "*" ELSE Head(items)) >>
         \o PerItem(Tail(items), alert_type)

\* The places of _evaluate_triggers whose condition holds, in the order in
\* which the function reaches them.
Sites(snapshot, last_snapshot) ==
    (IF last_snapshot /\ "price_drop" \in snapshot THEN PerItem(all_positions, "price_drop")
     ELSE IF last_snapshot /\ "price_gain" \in snapshot THEN PerItem(all_positions, "price_gain")
     ELSE << >>)
    \o (IF "margin_interest" \in snapshot THEN << Site("margin_interest", "*") >> ELSE << >>)
    \o (IF "rrsp_deadline" \in snapshot THEN PerItem(RrspAccounts, "rrsp_deadline") ELSE << >>)
    \o (IF "fhsa" \in snapshot THEN << Site("fhsa", "*") >> ELSE << >>)
    \o (IF last_snapshot /\ "portfolio_down" \in snapshot
        THEN << Site("portfolio_down", "*") >> ELSE << >>)
    \o (IF last_snapshot /\ "tlh_window" \in snapshot
        THEN PerItem(all_positions, "tlh_window") ELSE << >>)

\* every site asks _is_cooled and, if it is, appends its alert and arms the key
RECURSIVE evaluate_triggers(_, _, _, _)
evaluate_triggers(sites, cooldowns, alerts, utcnow) ==
    IF sites = << >> THEN [cooldowns |-> cooldowns, alerts |-> alerts]
    ELSE LET site == Head(sites)
             key == cooldown_key(site.alert_type, site.ticker)
         IN  IF is_cooled(cooldowns, key, CooldownHours(site.alert_type), utcnow)
             THEN evaluate_triggers(Tail(sites), arm(cooldowns, key, utcnow),
                                    Append(alerts, [key |-> key, at |-> utcnow]), utcnow)
             ELSE evaluate_triggers(Tail(sites), cooldowns, alerts, utcnow)

MonitorInit ==
    /\ ChatInit
    /\ BatchIdle
    /\ expander = Idle
    /\ intercept = Idle
    /\ whatif = Idle
    /\ mutation = Idle
    /\ trading = Idle
    /\ sockets = Idle
    /\ group = Idle
    /\ StoreIdle
    /\ \E condition \in Conditions :
         monitor = [pc |-> "check", utcnow |-> 0, checks |-> 0, cooldowns |-> << >>,
                    condition |-> condition, last_snapshot |-> FALSE, snapshot |-> {},
                    alerts |-> << >>, rows |-> << >>, produced |-> << >>]

\* _check up to the rows added to the session (lines 79-93)
MonitorCheck ==
    /\ monitor.pc = "check"
    /\ monitor.checks < MaxChecks
    /\ \E snapshot \in Snapshots(monitor.condition) :
         LET out == evaluate_triggers(Sites(snapshot, monitor.last_snapshot),
                                      monitor.cooldowns, << >>, monitor.utcnow)
         IN  monitor' = [monitor EXCEPT !.pc = "evaluated",
                                        !.checks = @ + 1,
                                        !.snapshot = snapshot,
                                        !.cooldowns = out.cooldowns,
                                        !.alerts = out.alerts,
                                        !.produced = @ \o out.alerts]
    /\ UNCHANGED offMonitorVars

\* the commit of line 94, and the snapshot remembered at line 123
MonitorCommit ==
    /\ monitor.pc = "evaluated"
    /\ monitor' = [monitor EXCEPT !.pc = "asleep",
                                  !.rows = @ \o monitor.alerts,
                                  !.alerts = << >>,
                                  !.snapshot = {},
                                  !.last_snapshot = TRUE]
    /\ UNCHANGED offMonitorVars

\* the commit raises: _loop logs the exception (lines 75-76) and sleeps
MonitorCommitFails ==
    /\ monitor.pc = "evaluated"
    /\ monitor' = [monitor EXCEPT !.pc = "asleep", !.alerts = << >>, !.snapshot = {}]
    /\ UNCHANGED offMonitorVars

MonitorSleep ==
    /\ monitor.pc = "asleep"
    /\ \E hours \in Sleeps :
         monitor' = [monitor EXCEPT !.pc = "check", !.utcnow = @ + hours]
    /\ UNCHANGED offMonitorVars

MonitorNext == MonitorCheck \/ MonitorCommit \/ MonitorCommitFails \/ MonitorSleep

MonitorSpec == MonitorInit /\ [][MonitorNext]_vars

-----------------------------------------------------------------------------
(* WebSocketManager (main.py) and the endpoint that uses it (routes.py)

   One run id.  _connections[run_id] is a list object: the entry of the
   defaultdict is created by the first subscript and deleted by disconnect
   when the list is empty, and a list that was deleted stays empty.  Each
   list object has a number, so that a broadcast suspended in a send goes on
   iterating the object it started with. *)

MaxBroadcasts == 2

WebSockets == {1, 2}

NoEntry == [mapped |-> FALSE, id |-> 0, list |-> << >>]

\* self._connections[run_id]: the subscript of a defaultdict creates the entry
Subscript(connections, created) ==
    IF connections.mapped THEN connections
    ELSE [mapped |-> TRUE, id |-> created + 1, list |-> << >>]

\* list.remove: the first occurrence
RECURSIVE remove(_, _)
remove(list, websocket) ==
    IF list = << >> THEN << >>
    ELSE IF Head(list) = websocket THEN Tail(list)
    ELSE << Head(list) >> \o remove(Tail(list), websocket)

\* disconnect (lines 38-41): list.remove raises ValueError for a socket that
\* is not in the list, after the subscript has created the entry
disconnect(connections, created, websocket) ==
    LET entry == Subscript(connections, created)
    IN  IF websocket \notin Range(entry.list)
        THEN [connections |-> entry, raised |-> TRUE]
        ELSE LET left == remove(entry.list, websocket)
             IN  [connections |-> IF left = << >> THEN NoEntry
                                  ELSE [entry EXCEPT !.list = left],
                  raised |-> FALSE]

\* the loop of lines 50-51, stopped by the first call that raises
RECURSIVE disconnect_dead(_, _, _)
disconnect_dead(connections, created, dead) ==
    IF dead = << >> THEN [connections |-> connections, raised |-> FALSE]
    ELSE LET out == disconnect(connections, created, Head(dead))
         IN  IF out.raised THEN out
             ELSE disconnect_dead(out.connections, created, Tail(dead))

Created(connections, created) == IF connections.mapped /\ connections.id > created
                                 THEN connections.id ELSE created

NoBroadcast == [pc |-> "idle", list_id |-> 0, index |-> 0, ws |-> 0, dead |-> << >>,
                at_start |-> {}, sent |-> {}]

SocketsInit ==
    /\ ChatInit
    /\ BatchIdle
    /\ expander = Idle
    /\ intercept = Idle
    /\ whatif = Idle
    /\ mutation = Idle
    /\ trading = Idle
    /\ monitor = Idle
    /\ group = Idle
    /\ StoreIdle
    /\ sockets = [pc |-> "serving", connections |-> NoEntry, created |-> 0,
                  client |-> [w \in WebSockets |-> "new"],
                  broadcast |-> NoBroadcast, broadcasts |-> 0, raised |-> {}]

\* the list object the running broadcast iterates
Iterated ==
    IF sockets.connections.mapped /\ sockets.connections.id = sockets.broadcast.list_id
    THEN sockets.connections.list ELSE << >>

\* websocket_endpoint: connect (lines 34-36)
EndpointConnect(w) ==
    /\ sockets.pc = "serving"
    /\ sockets.client[w] = "new"
    /\ LET entry == Subscript(sockets.connections, sockets.created)
       IN  sockets' = [sockets EXCEPT
                         !.connections = [entry EXCEPT !.list = Append(@, w)],
                         !.created = Created(entry, @),
                         !.client[w] = "open"]
    /\ UNCHANGED offSocketsVars

\* the client goes away; the endpoint is still suspended in receive_text
ClientCloses(w) ==
    /\ sockets.pc = "serving"
    /\ sockets.client[w] = "open"
    /\ sockets' = [sockets EXCEPT !.client[w] = "closed"]
    /\ UNCHANGED offSocketsVars

\* receive_text raises WebSocketDisconnect: routes.py 124-125
EndpointDisconnect(w) ==
    /\ sockets.pc = "serving"
    /\ sockets.client[w] = "closed"
    /\ LET out == disconnect(sockets.connections, sockets.created, w)
       IN  sockets' = [sockets EXCEPT
                         !.connections = out.connections,
                         !.created = Created(out.connections, @),
                         !.client[w] = "gone",
                         !.raised = IF out.raised THEN @ \cup {"disconnect"} ELSE @]
    /\ UNCHANGED offSocketsVars

\* broadcast, lines 44-45: .get returns the list object, or a new empty list
BroadcastStart ==
    /\ sockets.pc = "serving"
    /\ sockets.broadcast.pc = "idle"
    /\ sockets.broadcasts < MaxBroadcasts
    /\ sockets' = [sockets EXCEPT
                     !.broadcasts = @ + 1,
                     !.broadcast = [pc |-> "next",
                                    list_id |-> IF sockets.connections.mapped
                                                THEN sockets.connections.id ELSE 0,
                                    index |-> 0, ws |-> 0, dead |-> << >>,
                                    at_start |-> Range(sockets.connections.list),
                                    sent |-> {}]]
    /\ UNCHANGED offSocketsVars

\* the for statement of line 46 asks the list iterator for its next element
BroadcastNext ==
    /\ sockets.pc = "serving"
    /\ sockets.broadcast.pc = "next"
    /\ sockets' = [sockets EXCEPT
                     !.broadcast = IF sockets.broadcast.index < Len(Iterated)
                                   THEN [@ EXCEPT !.pc = "send", !.index = @ + 1,
                                                  !.ws = Iterated[sockets.broadcast.index + 1]]
                                   ELSE [@ EXCEPT !.pc = "dead", !.ws = 0]]
    /\ UNCHANGED offSocketsVars

\* await ws.send_text returns, or raises for a client that is gone (47-49)
BroadcastSend ==
    /\ sockets.pc = "serving"
    /\ sockets.broadcast.pc = "send"
    /\ sockets' = [sockets EXCEPT
                     !.broadcast = IF sockets.client[sockets.broadcast.ws] = "open"
                                   THEN [@ EXCEPT !.pc = "next", !.sent = @ \cup {sockets.broadcast.ws}]
                                   ELSE [@ EXCEPT !.pc = "next", !.dead = Append(@, sockets.broadcast.ws)]]
    /\ UNCHANGED offSocketsVars

\* lines 50-51
BroadcastDisconnectsDead ==
    /\ sockets.pc = "serving"
    /\ sockets.broadcast.pc = "dead"
    /\ LET out == disconnect_dead(sockets.connections, sockets.created, sockets.broadcast.dead)
       IN  sockets' = [sockets EXCEPT
                         !.connections = out.connections,
                         !.created = Created(out.connections, @),
                         !.broadcast.pc = "over",
                         !.raised = IF out.raised THEN @ \cup {"broadcast"} ELSE @]
    /\ UNCHANGED offSocketsVars

\* the call is over, returned or raised; the next broadcast can start
BroadcastReturns ==
    /\ sockets.pc = "serving"
    /\ sockets.broadcast.pc = "over"
    /\ sockets' = [sockets EXCEPT !.broadcast = NoBroadcast]
    /\ UNCHANGED offSocketsVars

SocketsNext ==
    \/ \E w \in WebSockets : EndpointConnect(w)
    \/ \E w \in WebSockets : ClientCloses(w)
    \/ \E w \in WebSockets : EndpointDisconnect(w)
    \/ BroadcastStart
    \/ BroadcastNext
    \/ BroadcastSend
    \/ BroadcastDisconnectsDead
    \/ BroadcastReturns

SocketsSpec == SocketsInit /\ [][SocketsNext]_vars

-----------------------------------------------------------------------------
(* The event stream of a turn, as the claims read it *)

Idx(kind) == { i \in 1..Len(events) : events[i].event = kind }

HasEvent(kind) == Idx(kind) # {}


\* position of the response event (past the end while there is none)
AnswerAt == IF HasEvent("response") THEN Least(Idx("response")) ELSE Len(events) + 1

PrimaryEvents == SubSeq(events, 1, AnswerAt - 1)

ReferralEvents == SubSeq(events, AnswerAt + 1, Len(events))

OfKind(evs, kind) == SelectSeq(evs, LAMBDA e : e.event = kind)

AgentsOf(evs, kind) == [ i \in 1..Len(OfKind(evs, kind)) |-> OfKind(evs, kind)[i].agent ]

Terminal(e) == e.event \in { "done", "error" }

TurnOver == pc = "finished"

EndedInDone == TurnOver /\ events # << >> /\ events[Len(events)].event = "done"

\* stage of the i-th event in the protocol's fixed sequence
Stage(i) ==
    LET k == events[i].event IN
    CASE k = "routing"                    -> 1
      [] k = "web_search_start"           -> 2
      [] k = "web_search_complete"        -> 3
      [] k \in { "agent_start", "handoff" } -> IF i < AnswerAt THEN 4 ELSE 8
      [] k = "agent_complete"             -> IF i < AnswerAt THEN 5 ELSE 8
      [] k = "response"                   -> 6
      [] k = "sources"                    -> 7
      [] k = "auto_referral_response"     -> 8
      [] k = "follow_ups"                 -> 9
      [] k = "done"                       -> 10
      [] k = "error"                      -> 11

-----------------------------------------------------------------------------
\* C1: in every turn the stream has exactly one terminal event, done or error,
\* and it is the last event: nothing is emitted after done or after error and
\* no stream holds both, on either branch and also when the save fails.
C1_OneTerminalEventLast ==
    /\ \A i \in 1..Len(events) : Terminal(events[i]) => i = Len(events)
    /\ TurnOver => events # << >> /\ Terminal(events[Len(events)])

-----------------------------------------------------------------------------
\* C2: in every turn that ends in done the events keep the stage order: routing
\* first; the lookup pair before any agent or response event; every primary
\* agent_start/handoff pair before every primary agent_complete; the response
\* after every primary agent_complete; sources directly after the response;
\* the referral events after response/sources and before follow_ups; follow_ups
\* exactly once, before done.
C2_StageOrder ==
    EndedInDone =>
        /\ Idx("routing") = { 1 }
        /\ Cardinality(Idx("response")) = 1
        /\ \A i \in 1..(Len(events) - 1) : Stage(i) <= Stage(i + 1)
        /\ \A i \in Idx("web_search_start") :
              i = 2 /\ events[3].event = "web_search_complete"
        /\ \A i \in Idx("web_search_complete") : i = 3 /\ events[2].event = "web_search_start"
        /\ \A i \in Idx("agent_start") :
              i < AnswerAt => events[i + 1].event = "handoff"
                              /\ events[i + 1].agent = events[i].agent
        /\ Len(OfKind(PrimaryEvents, "agent_complete")) = Len(OfKind(PrimaryEvents, "agent_start"))
        /\ Len(OfKind(PrimaryEvents, "handoff")) = Len(OfKind(PrimaryEvents, "agent_start"))
        /\ \A i \in Idx("sources") : i = AnswerAt + 1
        /\ Cardinality(Idx("follow_ups")) = 1
        /\ Idx("done") = { Len(events) }
        /\ Idx("error") = {}

\* a turn that ended in done after a lookup, two primary capabilities, sources
\* and a referral block
C2_Witness ==
    /\ EndedInDone
    /\ HasEvent("web_search_start")
    /\ HasEvent("sources")
    /\ Len(OfKind(PrimaryEvents, "agent_complete")) >= 2
    /\ HasEvent("auto_referral_response")

-----------------------------------------------------------------------------
-----------------------------------------------------------------------------
-----------------------------------------------------------------------------
\* C5: the referral stage starts no capability that is in the invoked set (the
\* primary capabilities, the direct_response sentinel, an earlier referral), and
\* it starts at most MAX_AUTO_REFERRALS capabilities in a turn, also when the
\* referred capability fails.
C5_ReferralWithinBudget ==
    LET started == AgentsOf(ReferralEvents, "agent_start") IN
        /\ Len(started) <= MAX_AUTO_REFERRALS
        /\ auto_referral_count <= MAX_AUTO_REFERRALS
        /\ \A i \in 1..Len(started) :
              /\ started[i] \notin Range(valid_agents) \cup { "direct_response" }
              /\ \A j \in 1..(i - 1) : started[j] # started[i]

\* a referral was started and failed in a turn whose adjacency map lists a
\* capability that had already run
C5_Witness ==
    /\ TurnOver
    /\ Len(AgentsOf(ReferralEvents, "agent_start")) = 1
    /\ \E i \in 1..Len(ReferralEvents) :
          ReferralEvents[i].event = "agent_complete" /\ ReferralEvents[i].err
    /\ \E a, b \in Range(valid_agents) : b \in Range(CROSS_REFERRAL_MAP[a])

-----------------------------------------------------------------------------
\* C6: a candidate is accepted only when its relevance check answered with the
\* boolean true; on every other outcome (the call raising, no JSON, no object,
\* no "refer" key, a "refer" that is no boolean) it is excluded.
C6_AcceptedOnlyOnBooleanTrue ==
    \A i \in 1..Len(referrals) : referrals[i].answer = "true"

-----------------------------------------------------------------------------
\* C7: on any router error (the call raising, output that is no JSON, JSON that
\* is no object with the routing fields) the turn acts on the fallback
\* decision: all five capabilities, no answer from context, no direct
\* response; it takes the agentic branch and ends in done, not in error and
\* not with an empty answer.
RouterErrors == { "raise", "nonjson", "scalar", "array", "string", "empty_object" }

C7_RouterFailsOpen ==
    router_raw \in RouterErrors =>
        /\ routing = RouterFallback
        /\ branch # "direct"
        /\ pc \notin { "start", "web_search", "branch" } => valid_agents = ALL_AGENTS
        /\ \A i \in Idx("error") : events[i].text # "AttributeError: no attribute get"
        /\ \A i \in Idx("response") : events[i].text # ""

-----------------------------------------------------------------------------
\* C8: whenever no capability has been invoked when the referral stage starts,
\* on the direct branch and on the agentic branch alike, the expander builds
\* its candidate set from the direct_response sentinel.
C8_SentinelWhenNothingInvoked ==
    ( pc = "referral_check" /\ turn_agents_invoked \cap CHAT_AGENT_MAP = {} )
    => /\ PrimaryAgents = << "direct_response" >>
       /\ CrossReferralCandidates(PrimaryAgents, turn_agents_invoked)
             = Range(CROSS_REFERRAL_MAP["direct_response"]) \ turn_agents_invoked

-----------------------------------------------------------------------------
\* C9: a turn whose stream holds an error event holds exactly one, and it
\* leaves the session as it found it: the row, if it is still there, has the
\* transcript and the last_findings the handler read before the turn.
C9_ErrorPersistsNothing ==
    HasEvent("error") =>
        /\ Cardinality(Idx("error")) = 1
        /\ db.exists => db.messages = history /\ db.last_findings = last_findings

\* the save was reached and failed, and the row is still there
C9_Witness ==
    /\ TurnOver
    /\ \E i \in Idx("error") : events[i].text = "database error"
    /\ db.exists

-----------------------------------------------------------------------------
\* C10: every turn that emitted done has persisted its exchange: the transcript
\* has grown by exactly the user's message and the assistant record with the
\* final response, and last_findings is updated, on both branches and with a
\* session-clear in flight.
C10_DoneImpliesPersisted ==
    (TurnOver /\ HasEvent("done")) =>
        /\ db.exists
        /\ Len(db.messages) = Len(history) + 2
        /\ SubSeq(db.messages, 1, Len(history)) = history
        /\ db.messages[Len(history) + 1].role = "user"
        /\ db.messages[Len(history) + 1].content = "user_message"
        /\ db.messages[Len(history) + 2].role = "assistant"
        /\ db.messages[Len(history) + 2].content = final_response
        /\ db.last_findings = all_findings

-----------------------------------------------------------------------------
\* C11: when the client disconnects before done has been emitted, the turn's
\* exchange is not persisted: the row, if it is still there, has the transcript
\* and the last_findings the handler read before the turn.
C11_DisconnectPersistsNothing ==
    (pc = "disconnected" /\ ~HasEvent("done")) =>
        (db.exists => db.messages = history /\ db.last_findings = last_findings)

-----------------------------------------------------------------------------
\* C16: on the agentic branch the findings of the primary capabilities are
\* validated before they are used: the finding_count of every agent_complete
\* counts the valid findings only, and only these are in the findings handed to
\* the synthesis and the follow-ups and persisted as last_findings.
C16_InvalidFindingsDropped ==
    (branch = "agentic" /\ HasEvent("response")) =>
        LET completes == OfKind(PrimaryEvents, "agent_complete") IN
        \A i \in 1..Len(valid_agents) :
            agent_results[i].kind = "ok" =>
                /\ completes[i].n = agent_results[i].valid
                /\ ( \A j \in (i + 1)..Len(valid_agents) :
                        valid_agents[j] = valid_agents[i] => agent_results[j].kind = "raise" )
                   => /\ all_findings[AGENT_TO_DOMAIN_KEY[valid_agents[i]]]
                            = agent_results[i].valid
                      /\ (EndedInDone /\ db.exists) =>
                            db.last_findings[AGENT_TO_DOMAIN_KEY[valid_agents[i]]]
                               = agent_results[i].valid

-----------------------------------------------------------------------------
\* C18: no two capability calls that run concurrently in the primary fan-out
\* can reach the same mutable object: each has its own state dict and its own
\* copy of the financial snapshot.
C18_NoSharedMutableObject ==
    pc = "gather" =>
        \A i, j \in 1..Len(agent_results) :
            (i # j /\ agent_results[i] = Pending /\ agent_results[j] = Pending)
            => ObjectsOf(ChatCallState(i)) \cap ObjectsOf(ChatCallState(j)) = {}

-----------------------------------------------------------------------------
-----------------------------------------------------------------------------
\* C20: a turn has at most one referral block, and a referral block is the
\* whole sequence handoff, agent_start, agent_complete, auto_referral_response,
\* all four for the same capability, so that every referral handoff is answered
\* by an auto_referral_response before follow_ups.
ReferralBlock == SelectSeq(ReferralEvents, LAMBDA e : e.event \in
                    { "handoff", "agent_start", "agent_complete", "auto_referral_response" })

C20_ReferralBlockComplete ==
    HasEvent("follow_ups") =>
        \/ ReferralBlock = << >>
        \/ /\ Len(ReferralBlock) = 4
           /\ ReferralBlock[1].event = "handoff"
           /\ ReferralBlock[2].event = "agent_start"
           /\ ReferralBlock[3].event = "agent_complete"
           /\ ReferralBlock[4].event = "auto_referral_response"
           /\ \A k \in 2..4 : ReferralBlock[k].agent = ReferralBlock[1].agent

-----------------------------------------------------------------------------
\* C12: when every external call returns or raises, every turn whose client
\* stays connected comes to emit done or error, and no turn performs more than
\* two capability-invocation rounds: the primary fan-out and at most one
\* referral invocation, however many candidates were evaluated or accepted.
InvocationRounds ==
    (IF OfKind(PrimaryEvents, "agent_start") # << >> THEN 1 ELSE 0)
    + Len(OfKind(ReferralEvents, "agent_start"))

C12_TerminatesInTwoRounds ==
    /\ [](InvocationRounds <= 2)
    /\ <>(pc = "disconnected"
          \/ (TurnOver /\ \E i \in 1..Len(events) : Terminal(events[i])))

\* a finished turn that ran the primary fan-out and one referral although its
\* referral check had more than one candidate
C12_Witness ==
    /\ TurnOver
    /\ InvocationRounds = 2
    /\ Cardinality(CrossReferralCandidates(valid_agents, Range(valid_agents))) >= 2
    /\ Terminal(events[Len(events)])

-----------------------------------------------------------------------------
(* The rankings, as the claims read them *)

\* a finding without the tags the rankings write into it
Core(f) == [ title |-> f.title, dollar_impact |-> f.dollar_impact, missing |-> f.missing ]

Cores(list) == [ i \in 1..Len(list) |-> Core(list[i]) ]

\* the valid findings of the capability results in merge order: the domains in
\* the order of the dict, the findings of a domain in the order of its list
MergeOrder == SelectSeq(Flatten(graph_state), is_valid_finding)

\* a title in lower case without the white space around it
Normalised(chars) ==
    LET inked == { i \in 1..Len(chars) : chars[i] # " " } IN
    IF inked = {} THEN << >>
    ELSE Lower(SubSeq(chars, Least(inked), CHOOSE m \in inked : \A i \in inked : i <= m))

\* position in merge order of the first valid finding with the title of f
FirstWithTitle(f) ==
    Least({ k \in 1..Len(MergeOrder) :
              Normalised(MergeOrder[k].title.chars) = Normalised(f.title.chars) })

Returned == { r \in 1..Len(synthesized_insights) : ~synthesized_insights[r].raised }

-----------------------------------------------------------------------------
\* C13: synthesis_node is idempotent and order-stable: a second run over the
\* same capability results returns the list the first run returned; the list
\* is in descending order of dollar_impact, and of two findings with the same
\* dollar_impact the one that is earlier in merge order comes first.
C13_RankIdempotentAndStable ==
    /\ \A r \in 1..Len(synthesized_insights) : synthesized_insights[r] = synthesized_insights[1]
    /\ \A r \in Returned :
          LET ranked == synthesized_insights[r].ranked IN
          \A i, j \in 1..Len(ranked) :
              i < j =>
                /\ ranked[i].dollar_impact.v >= ranked[j].dollar_impact.v
                /\ ranked[i].dollar_impact.v = ranked[j].dollar_impact.v
                      => FirstWithTitle(ranked[i]) < FirstWithTitle(ranked[j])

\* two runs returned three findings: the last in merge order has the highest
\* impact and comes out first, the two others tie and keep their order
C13_Witness ==
    /\ batch_pc = "ranked_twice"
    /\ Returned = { 1, 2 }
    /\ LET ranked == synthesized_insights[2].ranked IN
          /\ Len(ranked) = 3
          /\ FirstWithTitle(ranked[1]) = 3
          /\ ranked[2].dollar_impact.v = ranked[3].dollar_impact.v

-----------------------------------------------------------------------------
\* C14: synthesis_node deduplicates by the title in lower case, trimmed: of the
\* valid findings with the same normalised title exactly the first in merge
\* order is kept, also when a later one has other numbers, and findings with
\* different normalised titles are all kept.
C14_DedupByNormalisedTitle ==
    \A r \in Returned :
        LET ranked == synthesized_insights[r].ranked IN
        /\ \A i, j \in 1..Len(ranked) :
              i # j => Normalised(ranked[i].title.chars) # Normalised(ranked[j].title.chars)
        /\ \A i \in 1..Len(ranked) :
              Core(ranked[i]) = Core(MergeOrder[FirstWithTitle(ranked[i])])
        /\ \A k \in 1..Len(MergeOrder) :
              \E i \in 1..Len(ranked) :
                 Normalised(ranked[i].title.chars) = Normalised(MergeOrder[k].title.chars)

\* two valid findings whose titles differ in case and white space only, the
\* later with the higher impact, and a third with another title: the first and
\* the third are returned
C14_Witness ==
    /\ batch_pc = "ranked_once"
    /\ Returned = { 1 }
    /\ Len(MergeOrder) = 3
    /\ MergeOrder[1].title # MergeOrder[2].title
    /\ Normalised(MergeOrder[1].title.chars) = Normalised(MergeOrder[2].title.chars)
    /\ MergeOrder[1].dollar_impact.v < MergeOrder[2].dollar_impact.v
    /\ Cores(synthesized_insights[1].ranked) = << Core(MergeOrder[3]), Core(MergeOrder[1]) >>

-----------------------------------------------------------------------------
\* C15: whatever the input, synthesis_node returns, and returns only findings
\* that have the seven required keys and a numeric dollar_impact; every other
\* finding, one with a title that is no string included, is dropped without an
\* exception.
C15_MalformedDroppedNeverRaises ==
    \A r \in 1..Len(synthesized_insights) :
        /\ ~synthesized_insights[r].raised
        /\ \A i \in 1..Len(synthesized_insights[r].ranked) :
              /\ is_valid_finding(synthesized_insights[r].ranked[i])
              /\ synthesized_insights[r].ranked[i].title.str

-----------------------------------------------------------------------------
\* C17: the ranked findings of the proactive greeting and of the advisor report
\* are what synthesis_node returns for the same capability results (the
\* greeting keeps the first GREETING_TOP of them): invalid findings are dropped
\* without an exception, titles are deduplicated, the order is the same.
C17_SameRankingOutsideChat ==
    (batch_pc = "advised" /\ 1 \in Returned) =>
        LET ranked == Cores(synthesized_insights[1].ranked) IN
        /\ ~advisor_findings.raised
        /\ ~greeting_findings.raised
        /\ Cores(advisor_findings.ranked) = ranked
        /\ Cores(greeting_findings.ranked) =
              SubSeq(ranked, 1, IF Len(ranked) < GREETING_TOP THEN Len(ranked) ELSE GREETING_TOP)

-----------------------------------------------------------------------------
\* the text the stream gave last as the answer: that of the last
\* auto_referral_response, or that of the response where there is none
FinalText ==
    IF HasEvent("auto_referral_response")
    THEN events[Greatest(Idx("auto_referral_response"))].text
    ELSE events[AnswerAt].text

\* the save of this turn has committed its two records
Committed == db.exists /\ Len(db.messages) = Len(history) + 2

\* C21: a referral that succeeds merges the referred capability's findings into
\* the working findings, and the re-synthesised text supersedes the response as
\* the final response: the follow-ups are generated from it, the persisted
\* assistant content is the auto_referral_response text and the persisted
\* findings hold the referred capability's findings. When no referral runs or
\* it fails, the final response is the text of the response event.
C21_ReferralSupersedesResponse ==
    HasEvent("response") =>
        /\ pc # "disconnected" => final_response = FinalText
        /\ \A i \in Idx("follow_ups") : events[i].text = FinalText
        /\ Committed => db.messages[Len(history) + 2].content = FinalText
        /\ \A i \in Idx("auto_referral_response") :
              LET key == AGENT_TO_DOMAIN_KEY[events[i].agent]
                  n == events[i - 1].n
              IN  /\ events[i - 1].event = "agent_complete"
                  /\ events[i - 1].agent = events[i].agent
                  /\ pc # "disconnected" =>
                        key \in DOMAIN all_findings /\ all_findings[key] = n
                  /\ Committed =>
                        /\ key \in DOMAIN db.last_findings
                        /\ db.last_findings[key] = n
                        /\ db.messages[Len(history) + 2].findings_snapshot = db.last_findings

\* a turn whose referral returned findings, whose re-synthesised text differs
\* from the response and whose save has committed
C21_Witness ==
    /\ TurnOver
    /\ Committed
    /\ HasEvent("follow_ups")
    /\ \E i \in Idx("auto_referral_response") :
          /\ events[i - 1].n >= 1
          /\ events[i].text # events[AnswerAt].text
          /\ db.messages[Len(history) + 2].content = events[i].text

-----------------------------------------------------------------------------
StartedAgents == Range(AgentsOf(events, "agent_start"))

\* C22: within a turn the invoked set only grows, and every capability that
\* was started in the turn is in it when the turn ends; the referral counter
\* starts at 0, stays within 0..MAX_AUTO_REFERRALS and changes only by +1, on a
\* referral that was accepted and run. (The step that discards the frame of a
\* disconnected turn is not a step of the turn.)
C22_InvokedGrowsCounterBounded ==
    [][ /\ pc = "start" => auto_referral_count = 0 /\ turn_agents_invoked = {}
        /\ auto_referral_count' \in 0..MAX_AUTO_REFERRALS
        /\ pc' # "disconnected" =>
              /\ turn_agents_invoked \subseteq turn_agents_invoked'
              /\ auto_referral_count' \in { auto_referral_count, auto_referral_count + 1 }
              /\ auto_referral_count' = auto_referral_count + 1 =>
                    /\ pc = "referral_loop"
                    /\ Len(events') > 0
                    /\ events'[Len(events')].event = "auto_referral_response"
        /\ pc' = "finished" => StartedAgents' \subseteq turn_agents_invoked'
      ]_vars

-----------------------------------------------------------------------------
\* C27: every follow_ups event carries a list of two or three strings, for
\* every outcome of the follow-up generation call.
C27_FollowUpsCarryTwoOrThree ==
    \A i \in Idx("follow_ups") : events[i].n \in 2..3

-----------------------------------------------------------------------------
\* C23: get_cross_referral_candidates evaluates exactly the candidate set: the
\* capabilities the map lists for one of the given sources, less the invoked
\* ones. The map is read in the stated direction only. With an empty candidate
\* set no relevance check is made and no referral is returned. The result has
\* at most max_referrals entries, each an accepted member of the candidate set.
C23_EvaluatesExactlyTheCandidates ==
    expander.pc = "returned" =>
        /\ \A c \in expander.evaluated :
              /\ c \notin expander.turn_agents_invoked
              /\ \E s \in Range(expander.primary_agents) \cap DOMAIN CROSS_REFERRAL_MAP :
                    c \in Range(CROSS_REFERRAL_MAP[s])
        /\ \A s \in Range(expander.primary_agents) \cap DOMAIN CROSS_REFERRAL_MAP :
              \A c \in Range(CROSS_REFERRAL_MAP[s]) :
                 c \notin expander.turn_agents_invoked => c \in expander.evaluated
        /\ expander.evaluated = {} => expander.referrals = << >>
        /\ Len(expander.referrals) <= expander.max_referrals
        /\ \A i \in 1..Len(expander.referrals) :
              /\ expander.referrals[i].agent \in expander.accepted \cap expander.evaluated
              /\ \A j \in 1..(i - 1) : expander.referrals[j].agent # expander.referrals[i].agent

\* the call was made for timing alone: tlh, which lists timing, was not
\* invoked and was not evaluated; more candidates were accepted than
\* max_referrals allows and the result was cut
C23_Witness ==
    /\ expander.pc = "returned"
    /\ expander.primary_agents = << "timing" >>
    /\ "timing" \in Range(CROSS_REFERRAL_MAP["tlh"])
    /\ "tlh" \notin expander.turn_agents_invoked \cup expander.evaluated
    /\ Cardinality(expander.accepted) > expander.max_referrals
    /\ Len(expander.referrals) = 1

-----------------------------------------------------------------------------
\* the material findings of the capabilities of the fan-out that returned
SiblingFindings ==
    { f \in UNION { Range(intercept.results[j].findings) :
                      j \in { i \in 1..Len(intercept.results) :
                                intercept.results[i].kind = "ok" } } :
        f.dollar_impact.kind = "number" /\ Abs(f.dollar_impact.v) >= 50 }

\* what holds of every call of intercept_trade that has returned
InterceptReturned ==
    intercept.pc = "returned" =>
        /\ ~intercept.raised
        /\ intercept.cause \in { "timeout", "raise" } => intercept.result = NoIntercept
        /\ (intercept.cause = "return" /\ SiblingFindings # {}) =>
              /\ intercept.result.should_intercept
              /\ \A f \in SiblingFindings :
                    \/ f \in Range(intercept.result.findings)
                    \/ /\ Len(intercept.result.findings) = 3
                       /\ \A k \in 1..3 :
                             Abs(intercept.result.findings[k].dollar_impact.v)
                                >= Abs(f.dollar_impact.v)

\* C24: intercept_trade always returns and never raises: when the 8-second
\* deadline is missed or anything in the run raises, the result is exactly
\* {should_intercept: false}; a capability of the fan-out that raises does not
\* discard the findings of its siblings.
C24_InterceptAlwaysReturns ==
    /\ []InterceptReturned
    /\ <>(intercept.pc = "returned")

\* the call returned findings of a capability whose sibling raised
C24_Witness ==
    /\ intercept.pc = "returned"
    /\ intercept.cause = "return"
    /\ \E i \in 1..Len(intercept.results) : intercept.results[i].kind = "raise"
    /\ intercept.result.should_intercept
    /\ \A f \in SiblingFindings : f \in Range(intercept.result.findings)

-----------------------------------------------------------------------------
\* the titles of the two lists
UnionTitles ==
    { whatif.baseline_findings[i].title : i \in 1..Len(whatif.baseline_findings) }
    \cup { whatif.modified_findings[i].title : i \in 1..Len(whatif.modified_findings) }

\* the impact a list gives for a title: that of its finding with the title (of
\* the last one, if there are several), 0 if it has none
ImpactIn(list, title) ==
    IF \E i \in 1..Len(list) : list[i].title = title
    THEN list[Greatest({ i \in 1..Len(list) : list[i].title = title })].dollar_impact.v
    ELSE 0

TrueDelta(title) ==
    ImpactIn(whatif.modified_findings, title) - ImpactIn(whatif.baseline_findings, title)

\* one entry per title of the union, with the direction and present_in of the
\* claim
EntriesPerTitle ==
    /\ { whatif.delta[i].title : i \in 1..Len(whatif.delta) } = UnionTitles
    /\ Len(whatif.delta) = Cardinality(UnionTitles)
    /\ \A i \in 1..Len(whatif.delta) :
          LET e == whatif.delta[i]
              d == TrueDelta(e.title)
              inb == \E k \in 1..Len(whatif.baseline_findings) :
                        whatif.baseline_findings[k].title = e.title
              inm == \E k \in 1..Len(whatif.modified_findings) :
                        whatif.modified_findings[k].title = e.title
          IN  /\ e.direction = IF Abs(d) < 10 THEN "unchanged"
                               ELSE IF d > 0 THEN "improved" ELSE "worsened"
              /\ e.present_in = IF inb /\ inm THEN "both"
                                ELSE IF inm THEN "modified_only" ELSE "baseline_only"

\* C25 as stated: _compute_whatif_delta returns one entry per title of the union
\* of the baseline and the modified titles, with delta_dollar_impact = modified
\* impact - baseline impact (an absent side counts as 0), direction "unchanged"
\* when |delta| < 0.01, "improved" when delta > 0, otherwise "worsened", and
\* present_in both / modified_only / baseline_only; the entries are ordered by
\* |delta| descending.
C25_DeltaIsDifference ==
    (whatif.pc = "compared" /\ ~whatif.raised) =>
        /\ EntriesPerTitle
        /\ \A i \in 1..Len(whatif.delta) :
              whatif.delta[i].delta_dollar_impact = TrueDelta(whatif.delta[i].title)
        /\ \A i \in 1..(Len(whatif.delta) - 1) :
              Abs(TrueDelta(whatif.delta[i].title)) >= Abs(TrueDelta(whatif.delta[i + 1].title))

\* C25 amended: as stated, but delta_dollar_impact is the difference rounded to
\* two decimals (it differs from the difference by less than half a cent) and
\* the entries are ordered by |delta_dollar_impact| descending; the direction is
\* that of the difference before rounding.
C25_DeltaIsRoundedDifference ==
    (whatif.pc = "compared" /\ ~whatif.raised) =>
        /\ EntriesPerTitle
        /\ \A i \in 1..Len(whatif.delta) :
              LET e == whatif.delta[i] IN
              /\ e.delta_dollar_impact % 10 = 0
              /\ 2 * Abs(e.delta_dollar_impact - TrueDelta(e.title)) <= 10
        /\ \A i \in 1..(Len(whatif.delta) - 1) :
              Abs(whatif.delta[i].delta_dollar_impact)
                 >= Abs(whatif.delta[i + 1].delta_dollar_impact)

\* X is 100 in the baseline and 150 in the modified list: delta 50, improved;
\* Y, 100.004 in the baseline only, comes first with the rounded delta -100
C25_Witness ==
    /\ whatif.pc = "compared"
    /\ ~whatif.raised
    /\ Len(whatif.delta) = 2
    /\ whatif.delta[1] = [ title |-> "Y", baseline_dollar_impact |-> 100000,
                           modified_dollar_impact |-> 0,
                           delta_dollar_impact |-> -100000, direction |-> "worsened",
                           present_in |-> "baseline_only" ]
    /\ whatif.delta[2] = [ title |-> "X", baseline_dollar_impact |-> 100000,
                           modified_dollar_impact |-> 150000,
                           delta_dollar_impact |-> 50000, direction |-> "improved",
                           present_in |-> "both" ]
    /\ TrueDelta("Y") = -100004

-----------------------------------------------------------------------------
(* Hypothetical mutations, as the claims read them *)

\* the call asked for something the snapshot does not have: a scenario that
\* _apply_whatif does not know, or an account or a ticker that is not found
NothingToApply ==
    \/ /\ mutation.call.fn = "_apply_whatif"
       /\ mutation.call.scenario \notin {"rrsp_contribution", "tfsa_contribution", "pay_margin"}
    \/ /\ mutation.call.fn = "_simulate_trade"
       /\ \/ AccountHits(mutation.before, PortfolioId, mutation.call.account_id) = {}
          \/ Held(mutation.before,
                  mutation.before[mutation.before[Accounts(mutation.before, PortfolioId)[
                      Least(AccountHits(mutation.before, PortfolioId, mutation.call.account_id))].ref
                  ].fields.positions.ref].items,
                  Upper(mutation.call.ticker)) = {}

\* C26: after any call of _apply_whatif or _simulate_trade every object of the
\* snapshot it started from is as it was; a call that returns gives back a new
\* object that shares no object with the snapshot; and when the scenario is
\* unknown, or the account or the ticker is not found, the returned value
\* equals the input.
C26_SnapshotUntouched ==
    mutation.pc = "returned" =>
        /\ \A i \in DOMAIN mutation.before : mutation.heap[i] = mutation.before[i]
        /\ ~mutation.raised =>
             /\ mutation.returned \notin DOMAIN mutation.before
             /\ Reachable(mutation.heap, {mutation.returned}) \cap DOMAIN mutation.before = {}
             /\ NothingToApply =>
                  Value(mutation.heap, Ref(mutation.returned))
                      = Value(mutation.before, Ref(PortfolioId))

C26_Witness ==
    /\ mutation.pc = "returned"
    /\ mutation.call.fn = "_simulate_trade"
    /\ mutation.call.action = "sell"
    /\ ~NothingToApply
    /\ Value(mutation.heap, Ref(mutation.returned)) # Value(mutation.before, Ref(PortfolioId))

-----------------------------------------------------------------------------
(* The session requests, as the claims read them *)

ReturnedRequests(kind) == { k \in DOMAIN requests : requests[k].kind = kind /\ requests[k].pc = "returned" }

\* C28: a create-session that follows a completed session-clear returns a
\* session that is not restored, whose id no earlier request has returned and
\* whose transcript is the new greeting alone; and as long as no clear has been
\* requested, all create-session requests return one and the same session.
C28_ClearThenCreateStartsFresh ==
    /\ \A k \in ReturnedRequests("create") :
         requests[k].alone =>
             /\ ~requests[k].restored
             /\ \A j \in 1..(k - 1) : requests[j].session_id # requests[k].session_id
             /\ requests[k].after = << Record("greeting", k) >>
    /\ (\A k \in DOMAIN requests : requests[k].kind # "clear") =>
         \A j, k \in ReturnedRequests("create") : requests[j].session_id = requests[k].session_id

IsPrefixOf(s, t) == Len(s) <= Len(t) /\ SubSeq(t, 1, Len(s)) = s

Holds(messages, k) ==
    \E i \in 1..(Len(messages) - 1) :
        messages[i] = Record("user", k) /\ messages[i + 1] = Record("assistant", k)

\* C29: every save that writes leaves what was stored as a prefix and adds two
\* records after it; and when two turns of one session have both saved, the
\* session's transcript holds the records of both.
C29_TranscriptAppendOnly ==
    /\ \A k \in ReturnedRequests("save") :
         requests[k].wrote =>
             /\ IsPrefixOf(requests[k].before, requests[k].after)
             /\ Len(requests[k].after) = Len(requests[k].before) + 2
    /\ \A j, k \in ReturnedRequests("save") :
         (/\ j # k
          /\ requests[j].wrote
          /\ requests[k].wrote
          /\ requests[j].session_id = requests[k].session_id) =>
             \A i \in RowsOfSession(requests[k].session_id) :
                 Holds(conversations[i].messages, j) /\ Holds(conversations[i].messages, k)

-----------------------------------------------------------------------------
(* The capability groups, as the claims read them *)

\* what member i of the group has put into the merged result
Contributed(i) ==
    IF MergesDict(group.kind)
    THEN IF AGENT_TO_DOMAIN_KEY[group.members[i]] \in DOMAIN group.merged
         THEN group.merged[AGENT_TO_DOMAIN_KEY[group.members[i]]] ELSE << >>
    ELSE SelectSeq(group.listed, LAMBDA f : f.title = group.members[i])

\* C30: in every capability group no failing call aborts the group, and in
\* the merged result a failed capability has contributed no finding while
\* every other capability's findings are present.
C30_FailureNeverAbortsGroup ==
    /\ group.pc # "raised"
    /\ group.pc = "returned" =>
         \A i \in DOMAIN group.members :
             Contributed(i) = IF group.outcomes[i] = "findings"
                              THEN << GroupFinding(group.members[i]) >> ELSE << >>

-----------------------------------------------------------------------------
(* intercept_trade, as the claims on its result read it *)

\* all_findings: what the loop of lines 200-212 has collected when it ran to
\* its end; a call cancelled by the deadline or stopped by an exception before
\* the end of the loop has collected nothing
CollectedFindings ==
    IF /\ intercept.cause \in { "return", "raise" }
       /\ ~TradeAllFindings(intercept.results, 1).raised
    THEN TradeAllFindings(intercept.results, 1).all
    ELSE << >>

IsMaterial(f) == f.dollar_impact.kind = "number" /\ Abs(f.dollar_impact.v) >= 50

\* C31: intercept_trade returns should_intercept = true exactly when a
\* collected finding is material; then it returns at most 3 findings, all of
\* them collected and material, in descending order of |dollar_impact|, none
\* of the left-out material findings larger than a returned one, and the
\* headline is that of the first; otherwise it returns {should_intercept: false}.
C31_InterceptsExactlyOnMaterial ==
    intercept.pc = "returned" =>
        LET out == intercept.result.findings
            material == SelectSeq(CollectedFindings, IsMaterial)
        IN  /\ intercept.result.should_intercept <=> material # << >>
            /\ intercept.result.should_intercept =>
                 /\ Len(out) = (IF Len(material) < 3 THEN Len(material) ELSE 3)
                 /\ \A i \in 1..Len(out) : IsMaterial(out[i]) /\ out[i] \in Range(material)
                 /\ \A i \in 1..(Len(out) - 1) :
                        Abs(out[i].dollar_impact.v) >= Abs(out[i + 1].dollar_impact.v)
                 /\ \A f \in Range(material) :
                        f \notin Range(out) =>
                            Abs(f.dollar_impact.v) <= Abs(out[Len(out)].dollar_impact.v)
                 /\ intercept.result.headline = Headline(out[1])
            /\ ~intercept.result.should_intercept => intercept.result = NoIntercept

-----------------------------------------------------------------------------
(* The trade requests, as the claims read them *)

\* C32: after any sequence of trade requests no account has a cash balance
\* below zero, every position that exists has a share count above zero, and no
\* remaining contribution room is negative.
C32_NothingGoesNegative ==
    trading.pc = "open" =>
        \A a \in DOMAIN trading.book.accounts :
            /\ trading.book.accounts[a].balance_cad >= 0
            /\ trading.book.accounts[a].contribution_room_remaining >= 0
            /\ trading.book.positions[a].held => trading.book.positions[a].shares > 0

ChangedAccounts(before, after) ==
    { a \in DOMAIN before.accounts :
        before.accounts[a] # after.accounts[a] \/ before.positions[a] # after.positions[a] }

\* C33: a request that did not succeed has left every account, position and
\* contribution room as it was and recorded no transaction; a request that
\* succeeded has recorded exactly one transaction, two for a transfer, and
\* changed no account other than the ones it names.
C33_AllOrNothing ==
    (trading.pc = "open" /\ trading.last.request.kind # "") =>
        LET run == trading.last IN
        /\ run.status # "ok" => trading.book = run.before
        /\ run.status = "ok" =>
             /\ trading.book.transactions = run.before.transactions
                    + (IF run.request.kind = "exchange" THEN 2 ELSE 1)
             /\ ChangedAccounts(run.before, trading.book)
                    \subseteq { run.request.account_id, run.request.to_account_id }
             /\ trading.book.accounts[run.request.account_id].balance_cad =
                    run.before.accounts[run.request.account_id].balance_cad
                    + (CASE run.request.kind \in {"sell", "deposit"} -> run.total
                         [] run.request.kind \in {"buy", "withdraw"} -> -run.total
                         [] run.request.account_id = run.request.to_account_id -> 0
                         [] OTHER -> -run.total)

\* a request that raised after it had changed the objects of its session
C33_Witness ==
    /\ trading.pc = "open"
    /\ trading.last.request.kind = "buy"
    /\ trading.last.status = "raised"
    /\ trading.last.total = 0
    /\ trading.book = trading.last.before
    /\ trading.book.transactions > 0

\* C34: a sell of n shares at price p that follows a successful buy of n
\* shares at p in the same account succeeds, its proceeds are the cost of the
\* buy, and the position and the cash balance of the account are what they
\* were before the buy.
C34_BuyThenSellRoundTrip ==
    (/\ trading.pc = "open"
     /\ trading.prev.request.kind = "buy"
     /\ trading.prev.status = "ok"
     /\ trading.last.request = [trading.prev.request EXCEPT !.kind = "sell"]) =>
        LET a == trading.last.request.account_id IN
        /\ trading.last.status = "ok"
        /\ trading.last.total = trading.prev.total
        /\ trading.book.positions[a] = trading.prev.before.positions[a]
        /\ trading.book.accounts[a].balance_cad = trading.prev.before.accounts[a].balance_cad

-----------------------------------------------------------------------------
(* The alerts of the monitor, as the claims read them *)

\* C35: any two alerts the monitor has produced with the same cooldown key,
\* in one evaluation pass or in two, are at least the cooldown of their
\* alert type apart.
C35_CooldownBetweenAlerts ==
    monitor.pc # "idle" =>
        \A i, j \in DOMAIN monitor.produced :
            (i < j /\ monitor.produced[i].key = monitor.produced[j].key) =>
                monitor.produced[j].at - monitor.produced[i].at
                    >= CooldownHours(monitor.produced[i].key[1])

\* the deadline condition holds for two RRSP accounts, exactly 24 hours after
\* the last alert of that key: one alert is produced
C35_Witness ==
    /\ monitor.pc = "evaluated"
    /\ monitor.snapshot = {"rrsp_deadline"}
    /\ Len(monitor.alerts) = 1
    /\ \E i \in DOMAIN monitor.produced :
           /\ monitor.produced[i].key = monitor.alerts[1].key
           /\ monitor.produced[i].at + 24 = monitor.utcnow

\* C36: between two checks every armed cooldown key belongs to a stored alert
\* row with that key and that time.
C36_ArmedOnlyWhenStored ==
    monitor.pc \in {"check", "asleep"} =>
        \A key \in DOMAIN monitor.cooldowns :
            \E i \in DOMAIN monitor.rows :
                monitor.rows[i] = [key |-> key, at |-> monitor.cooldowns[key]]

-----------------------------------------------------------------------------
(* Two runs of the referral selection *)

\* C37: the list a call of get_cross_referral_candidates has returned is the
\* list every other run on the same sources, the same invoked set and the
\* same relevance answers returns, whatever order that run iterates the
\* candidate set in.
C37_SelectionIsDeterministic ==
    expander.pc = "returned" =>
        \A order \in SetOrders(expander.accepted) :
            ReferralList(order, expander.answers, expander.max_referrals) = expander.referrals

-----------------------------------------------------------------------------
(* The WebSocketManager, as the claims read it *)

C39_NothingRaises == sockets.raised = {}

C39_DeadUnregistered ==
    sockets.broadcast.pc = "over" =>
        \A i \in DOMAIN sockets.broadcast.dead :
            sockets.broadcast.dead[i] \notin Range(sockets.connections.list)

\* a connection that was registered when the broadcast started, and whose
\* client is still there when it is over, was sent the message
C39_LiveReceive ==
    sockets.broadcast.pc = "over" =>
        \A w \in sockets.broadcast.at_start :
            sockets.client[w] = "open" => w \in sockets.broadcast.sent

C39_NoEmptyList ==
    sockets.connections.mapped => sockets.connections.list # << >>

\* C39: in every interleaving of connect, disconnect and broadcast neither
\* broadcast nor disconnect raises, a dead connection found by a broadcast is
\* not registered when the broadcast is over, every live connection has been
\* sent the message, and the run id is never mapped to an empty list.
C39_ManagerSurvivesInterleavings ==
    sockets.pc = "serving" =>
        /\ C39_NothingRaises
        /\ C39_DeadUnregistered
        /\ C39_LiveReceive
        /\ C39_NoEmptyList

-----------------------------------------------------------------------------
(* The greeting of a restored session *)

\* C38: a create-session request that found today's session returns it as
\* restored with the greeting that was generated when that session was
\* created, whatever chat turns were saved on it in between.
C38_RestoreReturnsGreeting ==
    \A k \in DOMAIN requests :
        (requests[k].kind = "create" /\ requests[k].pc = "returned" /\ requests[k].restored) =>
            requests[k].greeting = GreetingOf(requests[k].session_id)

====
